---- MODULE Spec2Model ----
(***************************************************************************)
(* Model of the editing engine of the Image-Processor application:         *)
(*   core/image_store.py            ImageStore (undo/redo history)         *)
(*   core/adjustments.py            AdjustmentState and its clamping       *)
(*   core/adjustment_controller.py  AdjustmentController                   *)
(*   ui/main_window.py              the handlers that commit and restore   *)
(*                                  history snapshots                      *)
(*                                                                         *)
(* Python's Optional[T] is modelled as a sequence of length at most one:   *)
(* None is <<>> and a present value x is <<x>>.  Factor fields (floats     *)
(* with two decimals in the UI) are modelled in hundredths: 1.0 is 100.    *)
(***************************************************************************)
EXTENDS Integers, Sequences, FiniteSets, TLC

VARIABLES
    \* ImageStore fields (core/image_store.py)
    original, current, undo_stack, redo_stack,
    \* observation of the last ImageStore call: its name, argument, return
    \* value and the store as it was before the call
    call,
    \* whether a snapshot equal to the original was handed to push_state
    \* since the last load or reset
    pushed_original,
    \* AdjustmentController fields (core/adjustment_controller.py)
    state, listener,
    \* observation of the last AdjustmentController call: its name, argument,
    \* whether it raised, the listener invocations it made and the controller
    \* as it was before the call
    ctl_call,
    \* number of listener invocations so far, and number of successful
    \* mutator calls made so far while a listener was registered
    notified, mutations,
    \* number of AdjustmentController calls made so far
    calls,
    \* whether the state was reached from the default one by update_* calls
    \* alone (no set_state since construction or the last reset)
    only_updates,
    \* MainWindow fields (ui/main_window.py): the ImageSession, the image
    \* last rendered, the image the canvas shows, and the remaining flags
    session, current_adjusted_image, canvas, window,
    \* observation of a commit directly followed by undo_change and then
    \* redo_change: how far the sequence has come, and the adjustment state
    \* and displayed image at the moment of the undo
    round_trip,
    \* a function checked on its own: the arguments of the call under way
    \* and, once it has been made, its outcome
    args, result,
    \* the objects behind the window: the content of every object, the
    \* object each field of the window refers to, and an ImageStore whose
    \* snapshots refer to objects where those of the store hold values
    heap

None == <<>>
Some(x) == <<x>>
\* Python truthiness of an Optional[object] whose class defines neither
\* __bool__ nor __len__: only None is falsy.
Truthy(opt) == opt # None

Last(s) == s[Len(s)]
Front(s) == SubSeq(s, 1, Len(s) - 1)

\* dict.get(key, default)
Get(dict, key, default) == IF key \in DOMAIN dict THEN dict[key] ELSE default

(***************************************************************************)
(* Bounds of the model                                                     *)
(***************************************************************************)
\* largest number of snapshots below the current one after a push (and so
\* on the undo and redo stacks together)
MaxHist == 3
\* largest number of AdjustmentController calls in a run
MaxCalls == 3
\* largest number of snapshots the window commits below the current one
MaxCommits == 2

(***************************************************************************)
(* core/image_store.py                                                     *)
(***************************************************************************)
ImageState(path, description, payload) ==
    [path |-> path, description |-> description, payload |-> payload]

Paths == {"a.jpg", "b.jpg"}

\* the snapshots handed to push_state; the first one is equal to the
\* snapshot load("a.jpg") creates
Snapshots ==
    { ImageState("a.jpg", "Original geladen", None),
      ImageState("a.jpg", "Step 1", Some([value |-> 1])),
      ImageState("a.jpg", "Step 2", Some([value |-> 2])),
      ImageState("b.jpg", "Step 1", Some([value |-> 1])) }

\* ImageStore() after construction
ImageStore ==
    [original |-> None, current |-> None, undo_stack |-> <<>>, redo_stack |-> <<>>]

\* the store object held in the variables
Store ==
    [original |-> original, current |-> current,
     undo_stack |-> undo_stack, redo_stack |-> redo_stack]

\* every method maps a store to the store afterwards and the value returned
load(st, image_path) ==
    LET orig == ImageState(image_path, "Original geladen", None) IN
    [store |-> [original |-> Some(orig), current |-> Some(orig),
                undo_stack |-> <<>>, redo_stack |-> <<>>],
     ret |-> None]

push_state_keeps_redo(st, s) ==
    [store |-> [st EXCEPT
                  !.undo_stack = IF Truthy(st.current) THEN Append(@, st.current[1]) ELSE @,
                  !.current = Some(s)],
     ret |-> None]

push_state(st, s) ==
    [store |-> [st EXCEPT
                  !.undo_stack = IF Truthy(st.current) THEN Append(@, st.current[1]) ELSE @,
                  !.current = Some(s),
                  !.redo_stack = <<>>],
     ret |-> None]

\* undo() that does not append the current snapshot to the redo stack
undo_dropping_current(st) ==
    IF st.undo_stack = <<>>
    THEN [store |-> st, ret |-> None]
    ELSE [store |-> [st EXCEPT !.current = Some(Last(st.undo_stack)),
                               !.undo_stack = Front(st.undo_stack)],
          ret |-> Some(Last(st.undo_stack))]

undo_unguarded(st) ==
    LET redone == IF Truthy(st.current) THEN Append(st.redo_stack, st.current[1])
                  ELSE st.redo_stack IN
    IF st.undo_stack = <<>>
    THEN [store |-> [st EXCEPT !.redo_stack = redone], ret |-> None]
    ELSE [store |-> [st EXCEPT !.redo_stack = redone,
                               !.current = Some(Last(st.undo_stack)),
                               !.undo_stack = Front(st.undo_stack)],
          ret |-> Some(Last(st.undo_stack))]

undo(st) ==
    IF st.undo_stack = <<>>
    THEN [store |-> st, ret |-> None]
    ELSE [store |-> [st EXCEPT
                       !.redo_stack = IF Truthy(st.current) THEN Append(@, st.current[1]) ELSE @,
                       !.current = Some(Last(st.undo_stack)),
                       !.undo_stack = Front(st.undo_stack)],
          ret |-> Some(Last(st.undo_stack))]

redo_drops_current(st) ==
    IF st.redo_stack = <<>>
    THEN [store |-> st, ret |-> None]
    ELSE [store |-> [st EXCEPT
                       !.current = Some(Last(st.redo_stack)),
                       !.redo_stack = Front(st.redo_stack)],
          ret |-> Some(Last(st.redo_stack))]

redo(st) ==
    IF st.redo_stack = <<>>
    THEN [store |-> st, ret |-> None]
    ELSE [store |-> [st EXCEPT
                       !.undo_stack = IF Truthy(st.current) THEN Append(@, st.current[1]) ELSE @,
                       !.current = Some(Last(st.redo_stack)),
                       !.redo_stack = Front(st.redo_stack)],
          ret |-> Some(Last(st.redo_stack))]

reset_to_original_keeps_redo(st) ==
    IF ~Truthy(st.original)
    THEN [store |-> st, ret |-> None]
    ELSE [store |-> [st EXCEPT !.current = st.original, !.undo_stack = <<>>],
          ret |-> st.original]

reset_to_original(st) ==
    IF ~Truthy(st.original)
    THEN [store |-> st, ret |-> None]
    ELSE [store |-> [st EXCEPT !.current = st.original,
                               !.undo_stack = <<>>,
                               !.redo_stack = <<>>],
          ret |-> st.original]

has_history(st) == st.undo_stack # <<>> \/ st.redo_stack # <<>>

has_unsaved_changes_any_history(st) == st.undo_stack # <<>> \/ st.redo_stack # <<>>

has_unsaved_changes(st) == st.undo_stack # <<>>

(***************************************************************************)
(* core/adjustments.py                                                     *)
(***************************************************************************)
\* Python's built-in min and max on two numbers
Min(a, b) == IF b < a THEN b ELSE a
Max(a, b) == IF b > a THEN b ELSE a
Abs(a) == IF a < 0 THEN -a ELSE a

\* default arguments of _clamp_factor, in hundredths
FactorMin == 20
FactorMax == 300
\* literal bounds of the integer fields
BalanceMin == -100
BalanceMax == 100

\* the dataclass constructor stores its arguments as given
AdjustmentState(brightness, contrast, saturation, sharpness, temperature, red_balance, green_balance, blue_balance) ==
    [brightness |-> brightness, contrast |-> contrast,
     saturation |-> saturation, sharpness |-> sharpness,
     temperature |-> temperature, red_balance |-> red_balance,
     green_balance |-> green_balance, blue_balance |-> blue_balance]

\* AdjustmentState() with every field at its default
DefaultState == AdjustmentState(100, 100, 100, 100, 0, 0, 0, 0)

clamp_factor_no_upper(value) == Max(FactorMin, value)

\* _clamp_factor(value): float(max(minimum, min(maximum, value)))
clamp_factor(value) == Max(FactorMin, Min(FactorMax, value))

\* int(max(-100, min(100, value)))
clamp_balance(value) == Max(BalanceMin, Min(BalanceMax, value))

set_brightness(s, value) == [s EXCEPT !.brightness = clamp_factor(value)]
set_contrast(s, value) == [s EXCEPT !.contrast = clamp_factor(value)]
set_saturation(s, value) == [s EXCEPT !.saturation = clamp_factor(value)]
set_sharpness(s, value) == [s EXCEPT !.sharpness = clamp_factor(value)]
set_temperature(s, value) == [s EXCEPT !.temperature = clamp_balance(value)]
set_red_balance(s, value) == [s EXCEPT !.red_balance = clamp_balance(value)]
set_green_balance(s, value) == [s EXCEPT !.green_balance = clamp_balance(value)]
set_blue_balance(s, value) == [s EXCEPT !.blue_balance = clamp_balance(value)]

FactorFields == {"brightness", "contrast", "saturation", "sharpness"}
BalanceFields == {"temperature", "red_balance", "green_balance", "blue_balance"}

(***************************************************************************)
(* core/adjustment_controller.py                                           *)
(***************************************************************************)
\* AdjustmentController(on_change)
AdjustmentController(on_change) == [state |-> DefaultState, listener |-> on_change]

\* the controller object held in the variables
Controller == [state |-> state, listener |-> listener]

\* every method maps a controller to the controller afterwards, whether
\* AdjustmentControllerError was raised, and the listener invocations made
Returned(c, emitted) == [ctl |-> c, raised |-> FALSE, emitted |-> emitted]
Raised(c) == [ctl |-> c, raised |-> TRUE, emitted |-> <<>>]

\* _emit(): the listener, when one is set, is called with self._state
emit(c) ==
    IF Truthy(c.listener)
    THEN Returned(c, << [to |-> c.listener[1], state |-> c.state] >>)
    ELSE Returned(c, <<>>)

set_listener(c, callback) == Returned([c EXCEPT !.listener = Some(callback)], <<>>)

reset_silent(c) == Returned([c EXCEPT !.state = DefaultState], <<>>)

reset(c) == emit([c EXCEPT !.state = DefaultState])

set_state(c, s) == emit([c EXCEPT !.state = s])

update_factor_no_raise(c, field, value) ==
    IF field = "brightness" THEN emit([c EXCEPT !.state = set_brightness(@, value)])
    ELSE IF field = "contrast" THEN emit([c EXCEPT !.state = set_contrast(@, value)])
    ELSE IF field = "saturation" THEN emit([c EXCEPT !.state = set_saturation(@, value)])
    ELSE IF field = "sharpness" THEN emit([c EXCEPT !.state = set_sharpness(@, value)])
    ELSE emit(c)

update_factor(c, field, value) ==
    IF field = "brightness" THEN emit([c EXCEPT !.state = set_brightness(@, value)])
    ELSE IF field = "contrast" THEN emit([c EXCEPT !.state = set_contrast(@, value)])
    ELSE IF field = "saturation" THEN emit([c EXCEPT !.state = set_saturation(@, value)])
    ELSE IF field = "sharpness" THEN emit([c EXCEPT !.state = set_sharpness(@, value)])
    ELSE Raised(c)

update_temperature(c, value) == emit([c EXCEPT !.state = set_temperature(@, value)])
update_red_balance(c, value) == emit([c EXCEPT !.state = set_red_balance(@, value)])
update_green_balance(c, value) == emit([c EXCEPT !.state = set_green_balance(@, value)])
update_blue_balance(c, value) == emit([c EXCEPT !.state = set_blue_balance(@, value)])

(***************************************************************************)
(* Images                                                                  *)
(***************************************************************************)
\* A decoded image is described by the file it was read from, the crop box
\* cut out of it (if any) and the adjustment stages applied to it in order.
Decoded(path) == [src |-> path, crop |-> None, ops |-> <<>>]

\* image.convert(mode): a new image in the given mode; a description
\* without a mode is that of an RGB image
convert(image, mode) ==
    IF "mode" \in DOMAIN image THEN [image EXCEPT !.mode = mode] ELSE image

\* apply_adjustments(image, state) running the temperature stage first
apply_adjustments_temperature_first(image, s) ==
    LET factor(f) == IF s[f] # 100 THEN << <<f, s[f]>> >> ELSE <<>>
        temp == IF s.temperature # 0 THEN << <<"temperature", s.temperature>> >> ELSE <<>>
        rgb == IF s.red_balance # 0 \/ s.green_balance # 0 \/ s.blue_balance # 0
               THEN << <<"rgb_balance", s.red_balance, s.green_balance, s.blue_balance>> >>
               ELSE <<>>
    IN [convert(image, "RGB") EXCEPT
           !.ops = @ \o temp \o factor("brightness") \o factor("contrast")
                     \o factor("saturation") \o factor("sharpness") \o rgb]

\* apply_adjustments(image, state): the non-neutral stages, in fixed order
apply_adjustments(image, s) ==
    LET factor(f) == IF s[f] # 100 THEN << <<f, s[f]>> >> ELSE <<>>
        temp == IF s.temperature # 0 THEN << <<"temperature", s.temperature>> >> ELSE <<>>
        rgb == IF s.red_balance # 0 \/ s.green_balance # 0 \/ s.blue_balance # 0
               THEN << <<"rgb_balance", s.red_balance, s.green_balance, s.blue_balance>> >>
               ELSE <<>>
    IN [convert(image, "RGB") EXCEPT
           !.ops = @ \o factor("brightness") \o factor("contrast")
                     \o factor("saturation") \o factor("sharpness")
                     \o temp \o rgb]

(***************************************************************************)
(* core/image_session.py                                                   *)
(***************************************************************************)
RatioSelection == [label |-> None, value |-> None, custom_tuple |-> None]

\* ImageSession(settings) after construction
ImageSession ==
    [path |-> None, original_image |-> None, base_image |-> None, ratio |-> RatioSelection]

\* load(path) assigning the path before it decodes the file
session_load_assigning_first(s, path, decodes) ==
    IF ~decodes
    THEN [session |-> [s EXCEPT !.path = Some(path)], raised |-> TRUE, ret |-> None]
    ELSE [session |-> [path |-> Some(path), original_image |-> Some(Decoded(path)),
                       base_image |-> Some(Decoded(path)), ratio |-> RatioSelection],
          raised |-> FALSE, ret |-> Some(Decoded(path))]

\* load(path): decodes is whether Image.open(path).convert("RGB") succeeds
session_load(s, path, decodes) ==
    IF ~decodes
    THEN [session |-> s, raised |-> TRUE, ret |-> None]
    ELSE [session |-> [path |-> Some(path), original_image |-> Some(Decoded(path)),
                       base_image |-> Some(Decoded(path)), ratio |-> RatioSelection],
          raised |-> FALSE, ret |-> Some(Decoded(path))]

has_image(s) == s.base_image # None

\* set_base_image(image) replacing the original as well
set_base_image_replacing_original(s, image) ==
    [s EXCEPT !.base_image = Some(image), !.original_image = Some(image)]

\* set_base_image(image)
set_base_image(s, image) == [s EXCEPT !.base_image = Some(image)]

\* a session method that raised ImageSessionError, the session being as the
\* method left it
SessionRaised(s) == [session |-> s, raised |-> TRUE, ret |-> None]
SessionReturned(s, ret) == [session |-> s, raised |-> FALSE, ret |-> ret]

\* current_base()
current_base(s) ==
    IF s.base_image = None THEN SessionRaised(s) ELSE SessionReturned(s, s.base_image)

\* reset_base_to_original()
reset_base_to_original(s) ==
    IF s.original_image = None THEN SessionRaised(s)
    ELSE SessionReturned([s EXCEPT !.base_image = s.original_image], s.original_image)

\* ImageSession.apply_adjustments(state)
session_apply_adjustments(s, st) ==
    LET base == current_base(s)
    IN IF base.raised THEN base
       ELSE SessionReturned(base.session, Some(apply_adjustments(base.ret[1], st)))

(***************************************************************************)
(* core/crop_service.py                                                    *)
(***************************************************************************)
\* QRectF coordinates and extents are held in quarters of a display unit
Unit == 4

\* QRectF(x, y, w, h)
QRectF(x, y, w, h) == [x |-> x, y |-> y, w |-> w, h |-> h]

\* QPixmap of the given pixel size; the null pixmap has size 0 x 0
QPixmap(width, height) == [width |-> width, height |-> height]
isNull(pixmap) == pixmap.width = 0 \/ pixmap.height = 0

\* QRectF.isValid()
isValid(r) == r.w > 0 /\ r.h > 0

\* QRectF.intersected(other): extents may be negative, empty rectangles and
\* rectangles that do not overlap give the null rectangle
intersected(a, b) ==
    LET l1 == IF a.w < 0 THEN a.x + a.w ELSE a.x
        r1 == IF a.w < 0 THEN a.x ELSE a.x + a.w
        l2 == IF b.w < 0 THEN b.x + b.w ELSE b.x
        r2 == IF b.w < 0 THEN b.x ELSE b.x + b.w
        t1 == IF a.h < 0 THEN a.y + a.h ELSE a.y
        b1 == IF a.h < 0 THEN a.y ELSE a.y + a.h
        t2 == IF b.h < 0 THEN b.y + b.h ELSE b.y
        b2 == IF b.h < 0 THEN b.y ELSE b.y + b.h
    IN IF l1 = r1 \/ l2 = r2 \/ l1 >= r2 \/ l2 >= r1
          \/ t1 = b1 \/ t2 = b2 \/ t1 >= b2 \/ t2 >= b1
       THEN QRectF(0, 0, 0, 0)
       ELSE QRectF(Max(l1, l2), Max(t1, t2),
                   Min(r1, r2) - Max(l1, l2), Min(b1, b2) - Max(t1, t2))

\* int(n / d) for d > 0: truncation towards zero
truncate(n, d) == IF n >= 0 THEN n \div d ELSE -((-n) \div d)

\* int(round(n / d)) for d > 0: Python rounds halves to the even neighbour
round(n, d) ==
    LET q == n \div d
        r == n % d
    IN IF 2 * r < d THEN q
       ELSE IF 2 * r > d THEN q + 1
       ELSE IF q % 2 = 0 THEN q ELSE q + 1

\* a display length (in quarters) divided by the scale num/den, rounded
to_pixels(length, scale) == round(length * scale[2], Unit * scale[1])

\* the three input checks of compute_crop_box, first variant without the
\* check of the pixmap
inputs_rejected_ignoring_pixmap(image_rect, pixmap, current_scale) ==
    \/ image_rect.w <= 0 \/ image_rect.h <= 0
    \/ current_scale[1] <= 0

inputs_rejected(image_rect, pixmap, current_scale) ==
    \/ image_rect.w <= 0 \/ image_rect.h <= 0
    \/ isNull(pixmap)
    \/ current_scale[1] <= 0

CropResult(left, top, width, height) == [box |-> <<left, top, width, height>>]
CropServiceError == [raised |-> TRUE, ret |-> None]

\* the box computed from a non-empty intersection, first with truncation in
\* place of rounding
crop_box_truncated(intersection, image_rect, pixmap, current_scale) ==
    LET px(length) == truncate(length * current_scale[2], Unit * current_scale[1])
        left == Max(0, px(intersection.x - image_rect.x))
        top == Max(0, px(intersection.y - image_rect.y))
        width == Max(1, px(intersection.w))
        height == Max(1, px(intersection.h))
    IN CropResult(left, top,
                  IF left + width > pixmap.width THEN Max(1, pixmap.width - left) ELSE width,
                  IF top + height > pixmap.height THEN Max(1, pixmap.height - top) ELSE height)

crop_box(intersection, image_rect, pixmap, current_scale) ==
    LET left == Max(0, to_pixels(intersection.x - image_rect.x, current_scale))
        top == Max(0, to_pixels(intersection.y - image_rect.y, current_scale))
        width == Max(1, to_pixels(intersection.w, current_scale))
        height == Max(1, to_pixels(intersection.h, current_scale))
    IN CropResult(left, top,
                  IF left + width > pixmap.width THEN Max(1, pixmap.width - left) ELSE width,
                  IF top + height > pixmap.height THEN Max(1, pixmap.height - top) ELSE height)

\* compute_crop_box(selection_rect, image_rect, pixmap, current_scale); the
\* scale is the fraction current_scale[1] / current_scale[2]
compute_crop_box(selection_rect, image_rect, pixmap, current_scale) ==
    IF inputs_rejected(image_rect, pixmap, current_scale) THEN CropServiceError
    ELSE LET intersection == intersected(selection_rect, image_rect) IN
         IF ~isValid(intersection) \/ intersection.w <= 0 \/ intersection.h <= 0
         THEN CropServiceError
         ELSE [raised |-> FALSE,
               ret |-> Some(crop_box(intersection, image_rect, pixmap, current_scale))]

\* perform_crop(pixmap, crop) on the pixmap of the given image: the box is
\* cut out of what the image already is
perform_crop(pixmap, image, crop) ==
    IF isNull(pixmap) THEN CropServiceError
    ELSE [raised |-> FALSE,
          ret |-> Some([image EXCEPT !.crop =
                           IF @ = None THEN Some(crop.box)
                           ELSE Some(<<@[1][1] + crop.box[1], @[1][2] + crop.box[2],
                                       crop.box[3], crop.box[4]>>)])]

(***************************************************************************)
(* core/crop_geometry.py                                                   *)
(***************************************************************************)
CropGeometry(selection, image_bounds, scale) ==
    [selection |-> selection, image_bounds |-> image_bounds, scale |-> scale]

\* _rect_intersection(a, b) of two (x, y, w, h) rectangles
rect_intersection(a, b) ==
    LET x1 == Max(a[1], b[1])
        y1 == Max(a[2], b[2])
        x2 == Min(a[1] + a[3], b[1] + b[3])
        y2 == Min(a[2] + a[4], b[2] + b[4])
    IN <<x1, y1, Max(0, x2 - x1), Max(0, y2 - y1)>>

\* intersection()
intersection(g) == rect_intersection(g.selection, g.image_bounds)

\* epsilon = 0.25, in quarters of a display unit
Epsilon == 1

\* has_whitespace() comparing without the epsilon
has_whitespace_without_epsilon(g) ==
    LET inter == intersection(g)
    IN inter[3] < g.selection[3] \/ inter[4] < g.selection[4]

\* has_whitespace()
has_whitespace(g) ==
    LET inter == intersection(g)
    IN inter[3] < g.selection[3] - Epsilon \/ inter[4] < g.selection[4] - Epsilon

\* list(t) and tuple(l): the same entries in a list and in a tuple; a tuple
\* is a sequence, a list is tagged as one
list(t) == <<"list", t>>
tuple(l) == l[2]

\* float(v) of a value that is a float already
float(v) == v

\* to_payload(): a dict of two lists and the scale
to_payload(g) ==
    [selection |-> list(g.selection), image_bounds |-> list(g.image_bounds),
     scale |-> float(g.scale)]

\* from_payload(data) leaving selection and image_bounds the lists they are
from_payload_keeping_lists(data) ==
    IF data = None \/ DOMAIN data[1] = {} THEN None
    ELSE LET selection == Get(data[1], "selection", list(<<>>))
             image_bounds == Get(data[1], "image_bounds", list(<<>>))
         IN IF Len(selection[2]) # 4 \/ Len(image_bounds[2]) # 4 THEN None
            ELSE Some(CropGeometry(selection, image_bounds,
                                   float(Get(data[1], "scale", <<1, 1>>))))

\* from_payload(data): data is an Optional[dict]; no dict or an empty one,
\* and tuples of a length other than 4, give no geometry
from_payload(data) ==
    IF data = None \/ DOMAIN data[1] = {} THEN None
    ELSE LET selection == [i \in 1..Len(Get(data[1], "selection", list(<<>>))[2]) |->
                              float(Get(data[1], "selection", list(<<>>))[2][i])]
             image_bounds == [i \in 1..Len(Get(data[1], "image_bounds", list(<<>>))[2]) |->
                                 float(Get(data[1], "image_bounds", list(<<>>))[2][i])]
         IN IF Len(selection) # 4 \/ Len(image_bounds) # 4 THEN None
            ELSE Some(CropGeometry(selection, image_bounds,
                                   float(Get(data[1], "scale", <<1, 1>>))))

(***************************************************************************)
(* core/image_session.py: build_variant_specs, with core/settings.py       *)
(***************************************************************************)
\* ---- strings whose characters matter are sequences of characters ----
Digit(d) == <<"0", "1", "2", "3", "4", "5", "6", "7", "8", "9">>[d + 1]

\* str(n) for n >= 0
RECURSIVE Decimal(_)
Decimal(n) == IF n < 10 THEN <<Digit(n)>> ELSE Decimal(n \div 10) \o <<Digit(n % 10)>>

\* str.replace(old, new) for a single character old and a string new
RECURSIVE replace(_, _, _)
replace(s, old, new) ==
    IF s = <<>> THEN <<>>
    ELSE (IF s[1] = old THEN new ELSE <<s[1]>>) \o replace(Tail(s), old, new)

\* str.lower() on the spellings of rule keywords
lower(text) ==
    CASE text = "Auto" -> "auto"
      [] text = "AUTO" -> "auto"
      [] text = "Original" -> "original"
      [] OTHER -> text

\* ---- fractions.Fraction ----
RECURSIVE gcd(_, _)
gcd(a, b) == IF b = 0 THEN a ELSE gcd(b, a % b)

\* Fraction(numerator, denominator), reduced
Fraction(numerator, denominator) ==
    <<numerator \div gcd(numerator, denominator), denominator \div gcd(numerator, denominator)>>

\* the loop of Fraction.limit_denominator over the continued fraction of n/d
RECURSIVE convergents(_, _, _, _, _, _, _)
convergents(p0, q0, p1, q1, n, d, max_denominator) ==
    LET a == n \div d
        q2 == q0 + a * q1
    IN IF q2 > max_denominator
       THEN [p0 |-> p0, q0 |-> q0, p1 |-> p1, q1 |-> q1, n |-> n, d |-> d]
       ELSE convergents(p1, q1, p0 + a * p1, q2, d, n - a * d, max_denominator)

\* Fraction.limit_denominator(max_denominator)
limit_denominator(frac, max_denominator) ==
    IF frac[2] <= max_denominator THEN frac
    ELSE LET c == convergents(0, 1, 1, 0, frac[1], frac[2], max_denominator)
             k == (max_denominator - c.q0) \div c.q1
         IN IF 2 * c.d * (c.q0 + k * c.q1) <= frac[2]
            THEN <<c.p1, c.q1>>
            ELSE <<c.p0 + k * c.p1, c.q0 + k * c.q1>>

\* ---- settings.py ----
\* a rule's width or height is a string or an integer
Keyword(text) == [kind |-> "str", text |-> text]
Literal(value) == [kind |-> "int", value |-> value]
VariantRule(prefix, width, height) == [prefix |-> prefix, width |-> width, height |-> height]

\* labels of DEFAULT_SETTINGS
Label_default == <<"d", "e", "f", "a", "u", "l", "t">>
Label_16_9 == <<"1", "6", ":", "9">>
Label_9_16 == <<"9", ":", "1", "6">>

\* DEFAULT_SETTINGS["export"]["variant_rules"] as load_settings parses it
DEFAULT_SETTINGS ==
    (Label_default :> <<VariantRule("__", Keyword("original"), Keyword("original")),
                        VariantRule("_", Literal(960), Keyword("auto")),
                        VariantRule("", Literal(480), Keyword("auto"))>>)
    @@ (Label_16_9 :> <<VariantRule("__", Literal(3840), Literal(2160)),
                        VariantRule("_", Literal(1920), Literal(1080)),
                        VariantRule("", Literal(1280), Literal(720))>>)
    @@ (Label_9_16 :> <<VariantRule("__", Literal(2160), Literal(3840)),
                        VariantRule("_", Literal(1080), Literal(1920)),
                        VariantRule("", Literal(720), Literal(1280))>>)

\* ---- ImageSession.build_variant_specs ----
ImageSessionError == [raised |-> TRUE, ret |-> None]

\* the largest denominator of a derived ratio label
MaxDenominator == 100

\* set_ratio(label, value, custom)
set_ratio(s, label, value, custom) ==
    [s EXCEPT !.ratio = [label |-> label, value |-> value, custom_tuple |-> custom]]

\* clear_ratio()
clear_ratio(s) == [s EXCEPT !.ratio = RatioSelection]

\* _variant_rules(label), first always with the "default" rules, then without
\* the fallback to them
variant_rules_default_only(variant_rules, label) ==
    LET rules == Get(variant_rules, Label_default, <<>>)
    IN IF rules = <<>> THEN ImageSessionError
       ELSE [raised |-> FALSE, ret |-> Some(rules)]

variant_rules_without_fallback(variant_rules, label) ==
    LET rules == Get(variant_rules, label, <<>>)
    IN IF rules = <<>> THEN ImageSessionError
       ELSE [raised |-> FALSE, ret |-> Some(rules)]

variant_rules_of(variant_rules, label) ==
    LET rules == Get(variant_rules, label, <<>>)
        rules2 == IF rules = <<>> THEN Get(variant_rules, Label_default, <<>>) ELSE rules
    IN IF rules2 = <<>> THEN ImageSessionError
       ELSE [raised |-> FALSE, ret |-> Some(rules2)]

\* _derive_ratio(image): the label and the ratio value width / height, held
\* as the pair <<width, height>>; first without limit_denominator
derive_ratio_unlimited(image) ==
    IF image.height = 0 THEN [label |-> Label_default, value |-> <<1, 1>>]
    ELSE LET frac == Fraction(image.width, image.height)
         IN [label |-> Decimal(frac[1]) \o <<":">> \o Decimal(frac[2]),
             value |-> <<image.width, image.height>>]

derive_ratio(image) ==
    IF image.height = 0 THEN [label |-> Label_default, value |-> <<1, 1>>]
    ELSE LET frac == limit_denominator(Fraction(image.width, image.height), MaxDenominator)
         IN [label |-> Decimal(frac[1]) \o <<":">> \o Decimal(frac[2]),
             value |-> <<image.width, image.height>>]

is_auto(value) == value.kind = "str" /\ lower(value.text) = "auto"

\* max(1, int(round(height * ratio_value))), first without the floor at 1
auto_width_unfloored(height, ratio_value) == round(height * ratio_value[1], ratio_value[2])
auto_width(height, ratio_value) == Max(1, round(height * ratio_value[1], ratio_value[2]))

\* max(1, int(round(width / ratio_value)))
auto_height(width, ratio_value) == Max(1, round(width * ratio_value[2], ratio_value[1]))

\* the inner function resolve(value, original, is_width, other) of
\* _resolve_dimensions; other is an Optional[int], and original is written
\* original_size here
resolve(value, original_size, is_width, other, ratio_value) ==
    IF value.kind = "str" /\ lower(value.text) = "original" THEN original_size
    ELSE IF value.kind = "str" /\ lower(value.text) = "auto"
    THEN IF other = None \/ ratio_value[1] = 0 THEN original_size
         ELSE IF is_width THEN auto_width(other[1], ratio_value)
         ELSE auto_height(other[1], ratio_value)
    ELSE value.value

\* _resolve_dimensions(rule, image, ratio_value)
resolve_dimensions(rule, image, ratio_value) ==
    LET width_auto == is_auto(rule.width)
        height_auto == is_auto(rule.height)
        width == resolve(rule.width, image.width, TRUE, None, ratio_value)
        height == resolve(rule.height, image.height, FALSE, Some(width), ratio_value)
        width2 == IF width_auto /\ ~height_auto THEN auto_width(height, ratio_value) ELSE width
        height2 == IF height_auto /\ ~width_auto THEN auto_height(width2, ratio_value) ELSE height
    IN IF width_auto /\ height_auto THEN <<image.width, image.height>>
       ELSE <<width2, height2>>

\* build_variant_specs(image) of a session with the given rules and ratio
build_variant_specs(variant_rules, ratio, image) ==
    LET derive == ratio.value = None \/ ratio.value[1][1] <= 0
        label0 == IF derive THEN Some(derive_ratio(image).label) ELSE ratio.label
        value == IF derive THEN derive_ratio(image).value ELSE ratio.value[1]
        label == IF label0 = None \/ label0 = Some(<<>>) THEN Label_default ELSE label0[1]
        rules == variant_rules_of(variant_rules, label)
    IN IF rules.raised THEN ImageSessionError
       ELSE [raised |-> FALSE,
             ret |-> Some([specs |-> [i \in 1..Len(rules.ret[1]) |->
                                         <<rules.ret[1][i].prefix>>
                                         \o resolve_dimensions(rules.ret[1][i], image, value)],
                           suffix |-> replace(replace(replace(label, ":", <<"x">>),
                                                      " ", <<>>),
                                              "?", <<"c", "u", "s", "t", "o", "m">>)])]

\* build_variant_specs(image) as a method of the session s
session_build_variant_specs(s, variant_rules, image) ==
    LET built == build_variant_specs(variant_rules, s.ratio, image)
    IN [session |-> s, raised |-> built.raised, ret |-> built.ret]

(***************************************************************************)
(* core/image_processing.py                                                *)
(***************************************************************************)
\* an image buffer: its size and the operations that produced it
Image(width, height) == [width |-> width, height |-> height, made_by |-> <<>>]

\* a failed call: nothing is returned, and the image argument is as the
\* callee left it
ProcessingError(source) == [raised |-> TRUE, ret |-> None, source |-> source]

\* resize_with_quality(image, target_width, target_height) without its check
\* of the target width; target_height is an Optional[int]
resize_with_quality_unchecked(image, target_width, target_height) ==
    LET height == IF target_height # None THEN target_height[1]
                  ELSE IF image.width # 0
                       THEN Max(1, round(target_width * image.height, image.width))
                       ELSE Max(1, target_width)
        resized == IF target_width = image.width /\ height = image.height
                   THEN [image EXCEPT !.made_by = Append(@, "copy")]
                   ELSE [width |-> target_width, height |-> height,
                         made_by |-> Append(image.made_by, "resize")]
    IN [raised |-> FALSE,
        ret |-> Some([resized EXCEPT !.made_by = Append(@, "UnsharpMask")]),
        source |-> image]

\* resize_with_quality with int() in place of int(round()) for the derived
\* height
resize_with_quality_truncating(image, target_width, target_height) ==
    IF target_width <= 0 THEN ProcessingError(image)
    ELSE LET height == IF target_height # None THEN target_height[1]
                       ELSE IF image.width # 0
                            THEN Max(1, truncate(target_width * image.height, image.width))
                            ELSE Max(1, target_width)
             resized == IF target_width = image.width /\ height = image.height
                        THEN [image EXCEPT !.made_by = Append(@, "copy")]
                        ELSE [width |-> target_width, height |-> height,
                              made_by |-> Append(image.made_by, "resize")]
         IN [raised |-> FALSE,
             ret |-> Some([resized EXCEPT !.made_by = Append(@, "UnsharpMask")]),
             source |-> image]

\* resize_with_quality(image, target_width, target_height)
resize_with_quality(image, target_width, target_height) ==
    IF target_width <= 0 THEN ProcessingError(image)
    ELSE LET height == IF target_height # None THEN target_height[1]
                       ELSE IF image.width # 0
                            THEN Max(1, round(target_width * image.height, image.width))
                            ELSE Max(1, target_width)
             resized == IF target_width = image.width /\ height = image.height
                        THEN [image EXCEPT !.made_by = Append(@, "copy")]
                        ELSE [width |-> target_width, height |-> height,
                              made_by |-> Append(image.made_by, "resize")]
         IN [raised |-> FALSE,
             ret |-> Some([resized EXCEPT !.made_by = Append(@, "UnsharpMask")]),
             source |-> image]

\* ImageVariant(label, width, height, image); the label is f"{width}px"
ImageVariant(width, image) ==
    [label |-> <<width, "px">>, width |-> image.width, height |-> image.height,
     image |-> image]

\* the loop of generate_variants over the widths still to do
RECURSIVE generate_variants_from(_, _, _)
generate_variants_from(image, target_widths, variants) ==
    IF target_widths = <<>> THEN [raised |-> FALSE, ret |-> Some(variants), source |-> image]
    ELSE LET processed == resize_with_quality(image, Head(target_widths), None)
         IN IF processed.raised THEN ProcessingError(processed.source)
            ELSE generate_variants_from(processed.source, Tail(target_widths),
                     Append(variants, ImageVariant(Head(target_widths), processed.ret[1])))

\* generate_variants(image, target_widths)
generate_variants(image, target_widths) == generate_variants_from(image, target_widths, <<>>)

(***************************************************************************)
(* core/adjustments.py: the auto-balance heuristics                        *)
(*                                                                         *)
(* The image is the array np.array(image.convert("RGB")): a sequence of    *)
(* pixels <<r, g, b>> with channel values 0..255.  Percentiles and medians *)
(* are held in hundredths of a channel value, factors in hundredths, and   *)
(* the arithmetic is exact where numpy's is floating point.                *)
(***************************************************************************)
\* arr[..., c]: the values of channel c
channel(arr, c) == [i \in 1..Len(arr) |-> arr[i][c]]

\* the values of all channels, as np.percentile(arr, q) flattens them
RECURSIVE flatten(_)
flatten(arr) == IF arr = <<>> THEN <<>> ELSE arr[1] \o flatten(Tail(arr))

\* the values in ascending order
RECURSIVE insert(_, _)
insert(sorted_values, v) ==
    IF sorted_values = <<>> THEN <<v>>
    ELSE IF v <= sorted_values[1] THEN <<v>> \o sorted_values
    ELSE <<sorted_values[1]>> \o insert(Tail(sorted_values), v)

RECURSIVE sort(_)
sort(values) == IF values = <<>> THEN <<>> ELSE insert(sort(Tail(values)), values[1])

\* np.percentile(values, q), in hundredths: linear interpolation between
\* the two values around position q/100 * (n - 1)
percentile(values, q) ==
    LET ordered == sort(values)
        position == q * (Len(values) - 1)
        below == position \div 100 + 1
        fraction == position % 100
    IN IF fraction = 0 THEN 100 * ordered[below]
       ELSE (100 - fraction) * ordered[below] + fraction * ordered[below + 1]

\* np.median(values), in hundredths
median(values) == percentile(values, 50)

\* np.clip(value, low, high)
clip(value, low, high) == Max(low, Min(high, value))

\* round(numerator / denominator, 2) in hundredths, for a denominator > 0
quotient(numerator, denominator) == round(100 * numerator, denominator)

\* round(min(numerator / denominator, cap), 2) in hundredths; the quotient
\* is +inf where the denominator is 0.0 (numpy scalars divide without
\* raising), and the cap is then the minimum
min_quotient(numerator, denominator, cap) ==
    IF denominator = 0 THEN cap ELSE Min(quotient(numerator, denominator), cap)

\* r_balance, g_balance, b_balance of the Photoshop-style heuristic: the
\* channel's percentile midpoint against the average midpoint; doubled_mid
\* is p2 + p98 of the channel, total the sum over the three channels
midpoint_balance(total, doubled_mid) ==
    IF total > 6000 THEN clip(truncate(80 * (total - 3 * doubled_mid), total), -40, 40) ELSE 0

\* the stretch of the Photoshop-style heuristic without its lower limits on
\* the span and the midpoint
histogram_stretch_unguarded(p2, p98) ==
    IF 100 * (p98 - p2) < 85 * 25500
    THEN [contrast |-> clip(min_quotient(25500, p98 - p2, 150), 100, 150),
          brightness |-> clip(min_quotient(2 * 12750, p2 + p98, 135), 75, 135)]
    ELSE [contrast |-> 100, brightness |-> 100]

\* brightness and contrast of the Photoshop-style heuristic from the 2nd
\* and 98th percentile of the whole array
histogram_stretch(p2, p98) ==
    IF p98 - p2 > 1000 /\ 100 * (p98 - p2) < 85 * 25500
    THEN [contrast |-> clip(quotient(25500, p98 - p2), 100, 150),
          brightness |-> IF p2 + p98 > 2000
                         THEN clip(quotient(2 * 12750, p2 + p98), 75, 135)
                         ELSE 100]
    ELSE [contrast |-> 100, brightness |-> 100]

\* calculate_auto_balance_photoshop_style(image)
calculate_auto_balance_photoshop_style(arr) ==
    LET stretch == histogram_stretch(percentile(flatten(arr), 2), percentile(flatten(arr), 98))
        r_mid == percentile(channel(arr, 1), 2) + percentile(channel(arr, 1), 98)
        g_mid == percentile(channel(arr, 2), 2) + percentile(channel(arr, 2), 98)
        b_mid == percentile(channel(arr, 3), 2) + percentile(channel(arr, 3), 98)
        total == r_mid + g_mid + b_mid
    IN AdjustmentState(stretch.brightness, stretch.contrast, 100, 100, 0,
                       midpoint_balance(total, r_mid), midpoint_balance(total, g_mid),
                       midpoint_balance(total, b_mid))

\* the gentle stretch without the cap of 1.25 on the brightness
gentle_stretch_uncapped(p5, p95) ==
    IF p95 - p5 < 21000
    THEN [contrast |-> min_quotient(21000, p95 - p5, 130),
          brightness |-> IF p5 + p95 < 2 * 11500
                         THEN min_quotient(2 * 12500, p5 + p95, 300)
                         ELSE IF p5 + p95 > 2 * 14000
                         THEN Max(quotient(2 * 13000, p5 + p95), 80)
                         ELSE 100]
    ELSE [contrast |-> 100, brightness |-> 100]

\* brightness and contrast of the conservative heuristic from the 5th and
\* 95th percentile of the whole array
gentle_stretch(p5, p95) ==
    IF p95 - p5 < 21000
    THEN [contrast |-> min_quotient(21000, p95 - p5, 130),
          brightness |-> IF p5 + p95 < 2 * 11500
                         THEN min_quotient(2 * 12500, p5 + p95, 125)
                         ELSE IF p5 + p95 > 2 * 14000
                         THEN Max(quotient(2 * 13000, p5 + p95), 80)
                         ELSE 100]
    ELSE [contrast |-> 100, brightness |-> 100]

\* calculate_auto_balance_conservative(image)
calculate_auto_balance_conservative(arr) ==
    LET stretch == gentle_stretch(percentile(flatten(arr), 5), percentile(flatten(arr), 95))
    IN AdjustmentState(stretch.brightness, stretch.contrast, 100, 100, 0, 0, 0, 0)

\* the correction of a colour cast without np.clip
cast_correction_unclipped(total, channel_median) ==
    IF total > 3000 /\ 200 * Abs(total - 3 * channel_median) > 3 * total
    THEN truncate(85 * (total - 3 * channel_median), total)
    ELSE 0

\* r_balance, g_balance, b_balance of the colour-only heuristic: total is
\* the sum of the three channel medians, so avg_median is total / 3 and the
\* deviation in percent is (total - 3 * median) / total * 100
cast_correction(total, channel_median) ==
    IF total > 3000 /\ 200 * Abs(total - 3 * channel_median) > 3 * total
    THEN clip(truncate(85 * (total - 3 * channel_median), total), -45, 45)
    ELSE 0

\* calculate_auto_balance_color_only(image)
calculate_auto_balance_color_only(arr) ==
    LET r_median == median(channel(arr, 1))
        g_median == median(channel(arr, 2))
        b_median == median(channel(arr, 3))
        total == r_median + g_median + b_median
    IN AdjustmentState(100, 100, 100, 100, 0,
                       cast_correction(total, r_median), cast_correction(total, g_median),
                       cast_correction(total, b_median))

(***************************************************************************)
(* core/export_service.py                                                  *)
(***************************************************************************)
\* ExportVariant(prefix, resolution, ratio_suffix, image); prefix and
\* ratio_suffix are strings of characters
ExportVariant(prefix, resolution, ratio_suffix, image) ==
    [prefix |-> prefix, resolution |-> resolution, ratio_suffix |-> ratio_suffix,
     image |-> image]

\* ExportConfig(format, quality, method)
ExportConfig(format, quality, method) ==
    [format |-> format, quality |-> quality, method |-> method]

\* a raised exception of the given type: nothing is returned; written holds
\* the files saved before it was raised
ExportRaised(type, written) ==
    [raised |-> TRUE, exception |-> type, ret |-> None, written |-> written]

\* pathlib.Path: the directory and the file name
Path(parent, name) == [parent |-> parent, name |-> name]

\* position of the last "." in a name, 0 if there is none (str.rfind)
RECURSIVE rfind_dot(_, _)
rfind_dot(name, i) ==
    IF i = 0 THEN 0 ELSE IF name[i] = "." THEN i ELSE rfind_dot(name, i - 1)

\* Path.stem: the name up to its last ".", the whole name where the "." is
\* first, last or missing
stem(name) ==
    LET i == rfind_dot(name, Len(name))
    IN IF 1 < i /\ i < Len(name) THEN SubSeq(name, 1, i - 1) ELSE name

\* the file name built for a variant
variant_filename(base_path, variant) ==
    variant.prefix \o stem(base_path.name) \o <<"_">> \o Decimal(variant.resolution[1])
        \o <<"x">> \o Decimal(variant.resolution[2]) \o <<"_">> \o variant.ratio_suffix
        \o <<".", "w", "e", "b", "p">>

\* what Image.save leaves at target_path: the image encoded in the
\* configured format, with the xmp block where metadata_bytes is truthy
saved_file(config, target_path, variant, metadata_bytes) ==
    [path |-> target_path, format |-> config.format, quality |-> config.quality,
     image |-> variant.image,
     xmp |-> IF metadata_bytes # None /\ metadata_bytes[1] # <<>> THEN metadata_bytes ELSE None]

\* the loop of export_variants from the i-th variant on; the save of the
\* variant numbered failing_save raises OSError (0: every save succeeds)
RECURSIVE export_variants_from(_, _, _, _, _, _, _, _)
export_variants_from(config, base_path, variants, metadata_bytes, failing_save, i, output_paths, written) ==
    IF i > Len(variants)
    THEN [raised |-> FALSE, exception |-> None, ret |-> Some(output_paths), written |-> written]
    ELSE LET target_path == Path(base_path.parent, variant_filename(base_path, variants[i]))
         IN IF i = failing_save THEN ExportRaised(Some("OSError"), written)
            ELSE export_variants_from(config, base_path, variants, metadata_bytes, failing_save,
                     i + 1, Append(output_paths, target_path),
                     Append(written, saved_file(config, target_path, variants[i], metadata_bytes)))

\* ExportService(config).export_variants(base_path, variants, metadata_bytes)
export_variants(config, base_path, variants, metadata_bytes, failing_save) ==
    IF variants = <<>> THEN ExportRaised(Some("ExportServiceError"), <<>>)
    ELSE export_variants_from(config, base_path, variants, metadata_bytes, failing_save,
                              1, <<>>, <<>>)

(***************************************************************************)
(* ui/main_window.py                                                       *)
(***************************************************************************)
\* the flags of MainWindow after construction
MainWindowFlags ==
    [controls_enabled |-> FALSE, has_ratio_selection |-> FALSE,
     current_image_path |-> None, metadata_text |-> "", metadata_dirty |-> FALSE,
     crop_geometry |-> None, balance_mode |-> 0,
     active_ratio_button |-> None, selection |-> None, custom_ratio_tuple |-> None]

\* the window object held in the variables
Window ==
    [image_store |-> Store, adjustment_controller |-> Controller,
     session |-> session, current_adjusted_image |-> current_adjusted_image,
     canvas |-> canvas, flags |-> window]

\* the text _load_metadata_info reads from a file
MetadataOf(path) == "info of " \o path

\* _on_adjustment_state_change(state): the controller's listener
on_adjustment_state_change(w, st) ==
    IF ~has_image(w.session) THEN w
    ELSE LET adjusted == session_apply_adjustments(w.session, st).ret[1] IN
         [w EXCEPT !.current_adjusted_image = Some(adjusted), !.canvas = Some(adjusted)]

\* a controller call made by the window: the controller changes and every
\* listener invocation runs _on_adjustment_state_change
Notify(w, r) ==
    LET w1 == [w EXCEPT !.adjustment_controller = r.ctl] IN
    IF r.emitted # <<>> THEN on_adjustment_state_change(w1, r.emitted[1].state) ELSE w1

\* _render_adjusted_image()
render_adjusted_image(w) ==
    IF ~has_image(w.session) THEN w
    ELSE LET adjusted == session_apply_adjustments(w.session, w.adjustment_controller.state).ret[1] IN
         [w EXCEPT !.current_adjusted_image = Some(adjusted), !.canvas = Some(adjusted)]

\* _reset_internal_state(clear_canvas)
reset_internal_state(w, clear_canvas) ==
    LET w1 == [w EXCEPT !.flags.active_ratio_button = None,
                        !.flags.has_ratio_selection = FALSE,
                        !.flags.selection = None,
                        !.session = ImageSession,
                        !.current_adjusted_image = None,
                        !.flags.crop_geometry = None,
                        !.flags.metadata_text = "",
                        !.flags.metadata_dirty = FALSE,
                        !.canvas = IF clear_canvas THEN None ELSE @]
        w2 == Notify(w1, reset(w1.adjustment_controller))
    IN [w2 EXCEPT !.flags.controls_enabled = FALSE, !.flags.balance_mode = 0]

\* _handle_file_drop(path); outcome tells whether the file exists, has a
\* supported extension and can be decoded
handle_file_drop(w, path, outcome) ==
    IF outcome \in {"missing", "unsupported"} THEN w
    ELSE LET w1 == [w EXCEPT !.image_store = load(@, path).store]
             w2 == reset_internal_state(w1, FALSE)
             w3 == [w2 EXCEPT !.flags.current_image_path = Some(path)]
             r == session_load(w3.session, path, outcome = "ok")
         IN IF r.raised THEN w3
            ELSE LET w4 == [w3 EXCEPT !.session = r.session,
                                      !.current_adjusted_image = r.ret,
                                      !.canvas = r.ret]
                     w5 == Notify(w4, reset(w4.adjustment_controller))
                 IN [w5 EXCEPT !.flags.controls_enabled = TRUE,
                               !.flags.metadata_text = MetadataOf(path),
                               !.flags.metadata_dirty = FALSE]

\* _snapshot_adjustment_state()
snapshot_adjustment_state(w) ==
    LET s == w.adjustment_controller.state IN
    AdjustmentState(s.brightness, s.contrast, s.saturation, s.sharpness,
                    s.temperature, s.red_balance, s.green_balance, s.blue_balance)

\* _push_state(description, image)
window_push_state(w, description, image) ==
    IF ~Truthy(w.image_store.current) THEN w
    ELSE LET snapshot == snapshot_adjustment_state(w)
             payload ==
                 [base_image |-> IF has_image(w.session) THEN w.session.base_image ELSE None,
                  adjustment_state |->
                      [brightness |-> snapshot.brightness,
                       contrast |-> snapshot.contrast,
                       saturation |-> snapshot.saturation,
                       sharpness |-> snapshot.sharpness,
                       temperature |-> snapshot.temperature],
                  current_image |-> Some(image),
                  metadata_text |-> w.flags.metadata_text,
                  crop_geometry |-> IF w.flags.crop_geometry # None
                                    THEN Some(to_payload(w.flags.crop_geometry[1]))
                                    ELSE None]
         IN [w EXCEPT !.image_store =
                 push_state(@, ImageState(w.image_store.current[1].path, description,
                                          Some(payload))).store]

\* _commit_current_state(description)
commit_current_state(w, description) ==
    IF ~Truthy(w.current_adjusted_image) THEN w
    ELSE window_push_state(w, description, w.current_adjusted_image[1])

\* _slider_to_factor(slider_value): round(slider_value / 100.0, 2), which in
\* hundredths is the slider value itself
slider_to_factor(slider_value) == slider_value

\* _on_factor_slider_change(field, title, value, label)
on_factor_slider_change_committing(w, field, value) ==
    commit_current_state(
        Notify(w, update_factor(w.adjustment_controller, field, slider_to_factor(value))),
        "angepasst")

on_factor_slider_change(w, field, value) ==
    Notify(w, update_factor(w.adjustment_controller, field, slider_to_factor(value)))

\* _temperature_changed(value) and the three _*_balance_changed(value)
temperature_changed(w, value) == Notify(w, update_temperature(w.adjustment_controller, value))
red_balance_changed(w, value) == Notify(w, update_red_balance(w.adjustment_controller, value))
green_balance_changed(w, value) == Notify(w, update_green_balance(w.adjustment_controller, value))
blue_balance_changed(w, value) == Notify(w, update_blue_balance(w.adjustment_controller, value))

\* _commit_factor_state(title), _commit_temperature_state() and
\* _commit_rgb_state(label), which differ in the description they build
commit_slider_state(w, description) ==
    IF ~has_image(w.session) THEN w ELSE commit_current_state(w, description)

\* _reset_sliders_clicked()
reset_sliders_clicked(w) ==
    IF ~has_image(w.session) THEN w
    ELSE LET w1 == Notify(w, reset(w.adjustment_controller))
             w2 == render_adjusted_image(w1)
             w3 == commit_current_state(w2, "Einstellungen zurueckgesetzt")
         IN [w3 EXCEPT !.flags.balance_mode = 0]

\* np.array(image.convert("RGB")) of an image as decoded from its file
np_array(image) ==
    IF image.src = "a.jpg"
    THEN << <<150, 120, 90>>, <<150, 120, 90>>, <<140, 120, 100>>, <<160, 120, 80>> >>
    ELSE << <<120, 120, 120>>, <<122, 122, 122>> >>

\* the state a balance mode computes from the base image
optimal_state(mode, base_image) ==
    CASE mode = 1 -> calculate_auto_balance_photoshop_style(np_array(base_image))
      [] mode = 2 -> calculate_auto_balance_conservative(np_array(base_image))
      [] OTHER -> calculate_auto_balance_color_only(np_array(base_image))

\* f"Auto-Balance: {mode_name}"
balance_description(mode) ==
    CASE mode = 1 -> "Auto-Balance: Auto 1"
      [] mode = 2 -> "Auto-Balance: Auto 2"
      [] OTHER -> "Auto-Balance: Auto 3"

\* the statements of _auto_color_balance after the mode is chosen
balance_applied(w, mode) ==
    LET w1 == [w EXCEPT !.flags.balance_mode = mode]
        base_image == current_base(w1.session).ret[1]
        w2 == Notify(w1, set_state(w1.adjustment_controller, optimal_state(mode, base_image)))
        w3 == render_adjusted_image(w2)
    IN commit_current_state(w3, balance_description(mode))

\* _auto_color_balance() cycling 0 -> 1 -> 2 -> 3 -> 0
auto_color_balance_through_none(w) ==
    IF ~has_image(w.session) THEN w
    ELSE balance_applied(w, (w.flags.balance_mode + 1) % 4)

\* _auto_color_balance()
auto_color_balance(w) ==
    IF ~has_image(w.session) THEN w
    ELSE balance_applied(w, (w.flags.balance_mode % 3) + 1)

\* _has_unsaved_changes()
window_has_unsaved_changes(w) ==
    \/ has_image(w.session) /\ Truthy(w.current_adjusted_image)
    \/ w.flags.metadata_dirty
    \/ has_unsaved_changes(w.image_store)

\* reset_to_original(); confirmed is the answer to the question asked when
\* there are unsaved changes, outcome what opening the original file gives
window_reset_to_original(w, confirmed, outcome) ==
    IF ~Truthy(w.image_store.original) THEN w
    ELSE IF window_has_unsaved_changes(w) /\ ~confirmed THEN w
    ELSE LET original_path == w.image_store.original[1].path
             w1 == [w EXCEPT !.image_store = reset_to_original(@).store]
         IN handle_file_drop(w1, original_path, outcome)

\* _delete_selected_images(); paths are the files selected in the gallery,
\* each of which is deleted once the question is confirmed
delete_selected_images(w, paths, confirmed) ==
    IF paths = {} \/ ~confirmed THEN w
    ELSE IF Truthy(w.flags.current_image_path) /\ w.flags.current_image_path[1] \in paths
    THEN [reset_internal_state(w, TRUE) EXCEPT !.flags.current_image_path = None]
    ELSE w

\* _restore_from_payload(payload)
restore_from_payload(w, payload) ==
    LET base == Get(payload, "base_image", None)
        w1 == IF base # None
              THEN [w EXCEPT !.session = set_base_image(@, base[1]),
                             !.flags.controls_enabled = TRUE]
              ELSE [w EXCEPT !.session = ImageSession,
                             !.flags.controls_enabled = FALSE]
        adj == Get(payload, "adjustment_state", <<>>)
        restored_state ==
            AdjustmentState(Get(adj, "brightness", 100), Get(adj, "contrast", 100),
                            Get(adj, "saturation", 100), Get(adj, "sharpness", 100),
                            Get(adj, "temperature", 0), Get(adj, "red_balance", 0),
                            Get(adj, "green_balance", 0), Get(adj, "blue_balance", 0))
        w2 == Notify(w1, set_state(w1.adjustment_controller, restored_state))
        shown == Get(payload, "current_image", None)
        w3 == [w2 EXCEPT !.current_adjusted_image = shown,
                         !.canvas = shown,
                         !.flags.selection = IF shown = None THEN None ELSE @,
                         !.flags.crop_geometry =
                             from_payload(Get(payload, "crop_geometry", None))]
    IN IF "metadata_text" \in DOMAIN payload
       THEN [w3 EXCEPT !.flags.metadata_text = payload.metadata_text,
                       !.flags.metadata_dirty = FALSE]
       ELSE w3

\* the state handed back by undo()/redo() is usable: "state and state.payload"
Restorable(ret) == ret # None /\ ret[1].payload # None

\* whether undo_change() / redo_change() shows "Nichts zum Rückgängig
\* machen." / "Nichts zum Wiederholen."
shows_nothing_to_undo(w) == ~Restorable(undo(w.image_store).ret)
shows_nothing_to_redo(w) == ~Restorable(redo(w.image_store).ret)

\* undo_change()
undo_change(w) ==
    LET r == undo(w.image_store)
        w1 == [w EXCEPT !.image_store = r.store]
    IN IF ~Restorable(r.ret) THEN w1 ELSE restore_from_payload(w1, r.ret[1].payload[1])

\* redo_change()
redo_change(w) ==
    LET r == redo(w.image_store)
        w1 == [w EXCEPT !.image_store = r.store]
    IN IF ~Restorable(r.ret) THEN w1 ELSE restore_from_payload(w1, r.ret[1].payload[1])

\* ---- the canvas (ui/views/image_canvas.py) ----
\* size of the canvas widget in display units
CanvasWidth == 6
CanvasHeight == 2

\* pixel size of the image decoded from a file
PixelSize(path) == IF path = "a.jpg" THEN <<2, 2>> ELSE <<1, 2>>

\* size of an image: that of its file, or of the box cut out of it
SizeOf(image) ==
    IF image.crop = None THEN PixelSize(image.src)
    ELSE <<image.crop[1][3], image.crop[1][4]>>

\* current_pixmap(): an Optional[QPixmap]
current_pixmap(w) ==
    IF w.canvas = None THEN None
    ELSE Some(QPixmap(SizeOf(w.canvas[1])[1], SizeOf(w.canvas[1])[2]))

\* current_scale() after _update_scaling, the zoom factor being 1: the
\* smaller of the two fit ratios, as a fraction
current_scale(w) ==
    IF w.canvas = None THEN <<1, 1>>
    ELSE LET pw == SizeOf(w.canvas[1])[1]
             ph == SizeOf(w.canvas[1])[2]
             avail_w == Max(1, CanvasWidth)
             avail_h == Max(1, CanvasHeight)
         IN IF avail_w * ph <= avail_h * pw THEN <<avail_w, pw>> ELSE <<avail_h, ph>>

\* image_rect_in_canvas() after _update_scaling: the scaled image, centred
image_rect_in_canvas(w) ==
    IF w.canvas = None THEN QRectF(0, 0, 0, 0)
    ELSE LET scale == current_scale(w)
             scaled_w == (Unit * SizeOf(w.canvas[1])[1] * scale[1]) \div scale[2]
             scaled_h == (Unit * SizeOf(w.canvas[1])[2] * scale[1]) \div scale[2]
         IN QRectF((Unit * Max(1, CanvasWidth) - scaled_w) \div 2,
                   (Unit * Max(1, CanvasHeight) - scaled_h) \div 2, scaled_w, scaled_h)

\* ---- the crop overlay (ui/components/crop_overlay.py) ----
CropSelection(rect, aspect_ratio) == [rect |-> rect, aspect_ratio |-> aspect_ratio]

\* _confine_to_bounds(rect): bounds is the integer rectangle of the overlay,
\* whose right() and bottom() are one unit short of its far edges
confine_to_bounds(rect) ==
    LET right == Unit * (CanvasWidth - 1)
        bottom == Unit * (CanvasHeight - 1)
        x1 == IF rect.x < 0 THEN 0 ELSE rect.x
        x2 == IF x1 + rect.w > right THEN right - rect.w ELSE x1
        y1 == IF rect.y < 0 THEN 0 ELSE rect.y
        y2 == IF y1 + rect.h > bottom THEN bottom - rect.h ELSE y1
    IN QRectF(x2, y2, rect.w, rect.h)

\* _move_selection(new_top_left) while a selection is dragged
move_selection(w, new_top_left) ==
    LET sel == w.flags.selection[1]
        rect == confine_to_bounds(QRectF(new_top_left[1], new_top_left[2], sel.rect.w, sel.rect.h))
    IN [w EXCEPT !.flags.selection = Some(CropSelection(rect, sel.aspect_ratio))]

\* ---- ratio handling ----
\* _enter_crop_mode()
enter_crop_mode(w) ==
    IF ~has_image(w.session) THEN w
    ELSE LET s1 == reset_base_to_original(w.session).session IN
         [w EXCEPT !.session = s1,
                   !.current_adjusted_image = None,
                   !.flags.crop_geometry = None,
                   !.canvas = s1.base_image]

\* _compute_centered_rect(bounds, ratio)
compute_centered_rect(bounds, ratio) ==
    LET width0 == bounds.w
        height0 == (width0 * ratio[2]) \div ratio[1]
        height == IF height0 > bounds.h THEN bounds.h ELSE height0
        width == IF height0 > bounds.h THEN (height * ratio[1]) \div ratio[2] ELSE width0
    IN QRectF(bounds.x + bounds.w \div 2 - width \div 2,
              bounds.y + bounds.h \div 2 - height \div 2, width, height)

\* _apply_ratio(ratio) for a preset ratio (no target size)
apply_ratio(w, ratio) ==
    IF ~has_image(w.session) THEN [w |-> w, ret |-> FALSE]
    ELSE IF current_pixmap(w) = None \/ isNull(current_pixmap(w)[1]) THEN [w |-> w, ret |-> FALSE]
    ELSE LET rect0 == image_rect_in_canvas(w)
             rect == IF rect0.w <= 0 \/ rect0.h <= 0
                     THEN QRectF(0, 0, Unit * CanvasWidth, Unit * CanvasHeight) ELSE rect0
         IN IF rect.w <= 0 \/ rect.h <= 0 THEN [w |-> w, ret |-> FALSE]
            ELSE [w |-> [w EXCEPT !.flags.selection =
                                      Some(CropSelection(compute_centered_rect(rect, ratio), ratio)),
                                  !.flags.has_ratio_selection = TRUE],
                  ret |-> TRUE]

\* _ratio_button_clicked(button, label, ratio) for a preset button
ratio_button_clicked(w, label, ratio) ==
    IF w.flags.active_ratio_button = Some(label)
    THEN [w EXCEPT !.flags.active_ratio_button = None,
                   !.flags.selection = None,
                   !.flags.has_ratio_selection = FALSE,
                   !.session = clear_ratio(@),
                   !.flags.crop_geometry = None]
    ELSE IF ~has_image(w.session) THEN [w EXCEPT !.flags.active_ratio_button = None]
    ELSE LET w1 == enter_crop_mode([w EXCEPT !.flags.active_ratio_button = Some(label)])
         IN IF ratio[1] <= 0 THEN [w1 EXCEPT !.flags.active_ratio_button = None]
            ELSE LET w2 == [w1 EXCEPT !.session = set_ratio(@, Some(label), Some(ratio), None)]
                     r == apply_ratio(w2, ratio)
                 IN IF ~r.ret
                    THEN [r.w EXCEPT !.session = clear_ratio(@),
                                     !.flags.active_ratio_button = None,
                                     !.flags.has_ratio_selection = FALSE,
                                     !.flags.selection = None]
                    ELSE [r.w EXCEPT !.flags.has_ratio_selection = TRUE]

\* the label of the custom ratio button
CustomLabel == <<"?", ":", "?">>

\* the rectangle _apply_ratio centres for a custom ratio: the sizes the user
\* typed are scaled by min(rect.w / target_width, rect.h / target_height, 1)
sized_centered_rect(rect, target_width, target_height) ==
    LET by_width == rect.w * target_height <= rect.h * target_width
        num == IF by_width THEN rect.w ELSE rect.h
        den == IF by_width THEN Unit * target_width ELSE Unit * target_height
        width == IF num >= den THEN Unit * target_width
                 ELSE Max(Unit, (Unit * target_width * num) \div den)
        height == IF num >= den THEN Unit * target_height
                  ELSE Max(Unit, (Unit * target_height * num) \div den)
    IN QRectF(rect.x + rect.w \div 2 - width \div 2,
              rect.y + rect.h \div 2 - height \div 2, width, height)

\* _apply_ratio(ratio, target_width, target_height) for a custom ratio
apply_ratio_sized(w, ratio, target_width, target_height) ==
    IF ~has_image(w.session) THEN [w |-> w, ret |-> FALSE]
    ELSE IF current_pixmap(w) = None \/ isNull(current_pixmap(w)[1]) THEN [w |-> w, ret |-> FALSE]
    ELSE LET rect0 == image_rect_in_canvas(w)
             rect == IF rect0.w <= 0 \/ rect0.h <= 0
                     THEN QRectF(0, 0, Unit * CanvasWidth, Unit * CanvasHeight) ELSE rect0
         IN IF rect.w <= 0 \/ rect.h <= 0 THEN [w |-> w, ret |-> FALSE]
            ELSE [w |-> [w EXCEPT !.flags.selection =
                                      Some(CropSelection(sized_centered_rect(rect, target_width,
                                                                             target_height),
                                                         ratio)),
                                  !.flags.has_ratio_selection = TRUE],
                  ret |-> TRUE]

\* the statements of _ratio_button_clicked once the custom ratio is known
custom_ratio_chosen(w, custom_tuple) ==
    LET width == custom_tuple[1]
        height == custom_tuple[2]
        ratio_value == IF height # 0 THEN <<width, height>> ELSE <<1, 1>>
        label_text == Decimal(width) \o <<":">> \o Decimal(height)
    IN IF ratio_value[1] <= 0 THEN [w EXCEPT !.flags.active_ratio_button = None]
       ELSE LET r == apply_ratio_sized(
                         [w EXCEPT !.session = set_ratio(@, Some(label_text), Some(ratio_value),
                                                         Some(custom_tuple))],
                         ratio_value, width, height)
            IN IF ~r.ret
               THEN [r.w EXCEPT !.session = clear_ratio(@),
                                !.flags.active_ratio_button = None,
                                !.flags.has_ratio_selection = FALSE,
                                !.flags.selection = None]
               ELSE [r.w EXCEPT !.flags.has_ratio_selection = TRUE]

\* _ratio_button_clicked(button, label, None) for the custom button; shift
\* tells whether Shift is held, dialog is the size the dialog was accepted
\* with, or None when it was cancelled
custom_ratio_button_clicked(w, shift, dialog) ==
    IF w.flags.active_ratio_button = Some(CustomLabel)
    THEN [w EXCEPT !.flags.active_ratio_button = None,
                   !.flags.selection = None,
                   !.flags.has_ratio_selection = FALSE,
                   !.session = clear_ratio(@),
                   !.flags.crop_geometry = None]
    ELSE IF ~has_image(w.session) THEN [w EXCEPT !.flags.active_ratio_button = None]
    ELSE LET w1 == enter_crop_mode([w EXCEPT !.flags.active_ratio_button = Some(CustomLabel)])
         IN IF Truthy(w.flags.custom_ratio_tuple) /\ ~shift
            THEN custom_ratio_chosen(w1, w.flags.custom_ratio_tuple[1])
            ELSE IF dialog # None
            THEN custom_ratio_chosen([w1 EXCEPT !.flags.custom_ratio_tuple = dialog], dialog[1])
            ELSE [w1 EXCEPT !.flags.active_ratio_button = None]

\* _store_crop_geometry(selection_rect, image_rect, scale); the scale is
\* positive where it is called, so max(scale, 1e-6) is the scale
store_crop_geometry(w, selection_rect, image_rect, scale) ==
    IF image_rect.w <= 0 \/ image_rect.h <= 0 THEN [w EXCEPT !.flags.crop_geometry = None]
    ELSE [w EXCEPT !.flags.crop_geometry =
             Some(CropGeometry(<<selection_rect.x, selection_rect.y, selection_rect.w, selection_rect.h>>,
                               <<image_rect.x, image_rect.y, image_rect.w, image_rect.h>>,
                               scale))]

\* the try block of apply_crop: compute_crop_box, then perform_crop
cropped_image(w) ==
    LET pixmap == current_pixmap(w)[1]
        computed == compute_crop_box(w.flags.selection[1].rect, image_rect_in_canvas(w),
                                     pixmap, current_scale(w))
    IN IF computed.raised THEN CropServiceError
       ELSE perform_crop(pixmap, w.canvas[1], computed.ret[1])

\* f"Crop {selection.aspect_ratio:.2f}" for the preset ratios
crop_description(aspect_ratio) ==
    CASE aspect_ratio = <<1, 1>> -> "Crop 1.00"
      [] aspect_ratio = <<4, 3>> -> "Crop 1.33"
      [] aspect_ratio = <<3, 2>> -> "Crop 1.50"
      [] OTHER -> "Crop"

\* the statements of apply_crop after the try block
crop_applied(w, cropped) ==
    LET w1 == store_crop_geometry(w, w.flags.selection[1].rect, image_rect_in_canvas(w),
                                  current_scale(w))
        w2 == [w1 EXCEPT !.session = set_base_image(@, cropped)]
        w3 == Notify(w2, reset(w2.adjustment_controller))
        w4 == render_adjusted_image([w3 EXCEPT !.flags.controls_enabled = TRUE])
    IN commit_current_state(w4, crop_description(w.flags.selection[1].aspect_ratio))

\* apply_crop(), first with the crop geometry stored before the crop is
\* tried; error is the message shown, if any
apply_crop_storing_geometry_first(w) ==
    IF ~Truthy(w.image_store.current) \/ w.flags.selection = None \/ current_pixmap(w) = None
    THEN [w |-> w, error |-> Some("Bitte Bild laden und Aspect Ratio auswaehlen.")]
    ELSE IF ~w.flags.has_ratio_selection
    THEN [w |-> w, error |-> Some("Bitte zuerst ein Aspect Ratio auswaehlen.")]
    ELSE LET w1 == store_crop_geometry(w, w.flags.selection[1].rect, image_rect_in_canvas(w),
                                       current_scale(w))
         IN IF cropped_image(w).raised THEN [w |-> w1, error |-> Some("CropServiceError")]
            ELSE [w |-> crop_applied(w, cropped_image(w).ret[1]), error |-> None]

apply_crop(w) ==
    IF ~Truthy(w.image_store.current) \/ w.flags.selection = None \/ current_pixmap(w) = None
    THEN [w |-> w, error |-> Some("Bitte Bild laden und Aspect Ratio auswaehlen.")]
    ELSE IF ~w.flags.has_ratio_selection
    THEN [w |-> w, error |-> Some("Bitte zuerst ein Aspect Ratio auswaehlen.")]
    ELSE IF cropped_image(w).raised THEN [w |-> w, error |-> Some("CropServiceError")]
    ELSE [w |-> crop_applied(w, cropped_image(w).ret[1]), error |-> None]

\* no commit-undo-redo sequence under way
NoRoundTrip == [phase |-> "none", state |-> DefaultState, image |-> None]

(***************************************************************************)
(* The objects behind the window: which object every field refers to       *)
(***************************************************************************)
\* the fields of the controller, the session, the window and the canvas
\* that refer to a mutable object: AdjustmentController._state,
\* ImageSession.original_image and .base_image,
\* MainWindow.current_adjusted_image and .crop_geometry, ImageCanvas._pil_image
LiveFields == {"state", "original_image", "base_image", "current_adjusted_image",
               "pil_image", "crop_geometry"}

\* the objects once MainWindow is constructed: the AdjustmentState() of the
\* controller and an empty ImageStore; objects maps an object to its content
MainWindowHeap ==
    [objects |-> (1 :> DefaultState), state |-> Some(1),
     original_image |-> None, base_image |-> None, current_adjusted_image |-> None,
     pil_image |-> None, crop_geometry |-> None, image_store |-> ImageStore]

\* the elements of a sequence
Range(seq) == {seq[i] : i \in DOMAIN seq}

\* the objects the fields refer to
LiveIds(h) == UNION {Range(h[field]) : field \in LiveFields}

\* the objects a snapshot's payload refers to
SnapshotIds(snapshot) ==
    IF snapshot.payload = None THEN {}
    ELSE LET payload == snapshot.payload[1] IN
         {payload.adjustment_state, payload.current_image}
             \cup Range(payload.base_image) \cup Range(payload.crop_geometry)

\* the snapshots the store holds
HeldSnapshots(h) ==
    h.image_store.original \o h.image_store.current
        \o h.image_store.undo_stack \o h.image_store.redo_stack

StoredIds(h) == UNION {SnapshotIds(snapshot) : snapshot \in Range(HeldSnapshots(h))}

\* the next object created
NewId(h) ==
    CHOOSE id \in 1..(Cardinality(DOMAIN h.objects) + 1) :
        /\ id \notin DOMAIN h.objects
        /\ \A other \in 1..(id - 1) : other \in DOMAIN h.objects

\* an object is created with the content given
Alloc(h, content) == [h EXCEPT !.objects = (NewId(h) :> content) @@ @]

\* field = <a new object with the content given>
Put(h, field, content) == [Alloc(h, content) EXCEPT ![field] = Some(NewId(h))]

\* the objects a snapshot's payload refers to, in the order of its keys
SnapshotRefs(snapshot) ==
    IF snapshot.payload = None THEN <<>>
    ELSE LET payload == snapshot.payload[1] IN
         payload.base_image \o <<payload.adjustment_state, payload.current_image>>
             \o payload.crop_geometry

RECURSIVE AllSnapshotRefs(_)
AllSnapshotRefs(snapshots) ==
    IF snapshots = <<>> THEN <<>>
    ELSE SnapshotRefs(Head(snapshots)) \o AllSnapshotRefs(Tail(snapshots))

\* every reference there is: those of the fields, then those of the snapshots
References(h) ==
    h.state \o h.original_image \o h.base_image \o h.current_adjusted_image
        \o h.pil_image \o h.crop_geometry \o AllSnapshotRefs(HeldSnapshots(h))

\* the sequence without the repetitions of its elements
RECURSIVE Distinct(_)
Distinct(seq) ==
    IF seq = <<>> THEN <<>>
    ELSE LET front == Distinct(Front(seq)) IN
         IF Last(seq) \in Range(front) THEN front ELSE Append(front, Last(seq))

\* objects nothing refers to any more are reclaimed, and the others are
\* named by the place of the first reference to them: an object's name
\* carries no meaning, what matters is which references name the same object
collect(h) ==
    LET met == Distinct(References(h))
        name == [id \in Range(met) |-> CHOOSE i \in DOMAIN met : met[i] = id]
        rename(ref) == [i \in DOMAIN ref |-> name[ref[i]]]
        renamed(snapshot) ==
            IF snapshot.payload = None THEN snapshot
            ELSE [snapshot EXCEPT !.payload =
                     Some([@[1] EXCEPT !.base_image = rename(@),
                                       !.adjustment_state = name[@],
                                       !.current_image = name[@],
                                       !.crop_geometry = rename(@)])]
        all(snapshots) == [i \in DOMAIN snapshots |-> renamed(snapshots[i])]
    IN [objects |-> [i \in DOMAIN met |-> h.objects[met[i]]],
        state |-> rename(h.state),
        original_image |-> rename(h.original_image),
        base_image |-> rename(h.base_image),
        current_adjusted_image |-> rename(h.current_adjusted_image),
        pil_image |-> rename(h.pil_image),
        crop_geometry |-> rename(h.crop_geometry),
        image_store |-> [original |-> all(h.image_store.original),
                         current |-> all(h.image_store.current),
                         undo_stack |-> all(h.image_store.undo_stack),
                         redo_stack |-> all(h.image_store.redo_stack)]]

\* the value a field has in the window
LiveValue(w, field) ==
    CASE field = "state" -> Some(w.adjustment_controller.state)
      [] field = "original_image" -> w.session.original_image
      [] field = "base_image" -> w.session.base_image
      [] field = "current_adjusted_image" -> w.current_adjusted_image
      [] field = "pil_image" -> w.canvas
      [] OTHER -> w.flags.crop_geometry

\* each of the fields is assigned a newly created object (a copy, a newly
\* rendered image, a newly built state or geometry) holding the value the
\* field has in the window w, or None where it has none
RECURSIVE Renew(_, _, _)
Renew(h, w, fields) ==
    IF fields = <<>> THEN h
    ELSE LET value == LiveValue(w, Head(fields))
             h1 == IF value = None THEN [h EXCEPT ![Head(fields)] = None]
                   ELSE Put(h, Head(fields), value[1])
         IN Renew(h1, w, Tail(fields))

\* _push_state(description, image) that stores the image it is handed
heap_push_state_sharing(h, w, description) ==
    IF ~Truthy(h.image_store.current) THEN h
    ELSE LET h1 == IF h.base_image # None THEN Alloc(h, h.objects[h.base_image[1]]) ELSE h
             base_image == IF h.base_image # None THEN Some(NewId(h)) ELSE None
             snapshot == h.objects[h.state[1]]
             h2 == Alloc(h1, [brightness |-> snapshot.brightness,
                              contrast |-> snapshot.contrast,
                              saturation |-> snapshot.saturation,
                              sharpness |-> snapshot.sharpness,
                              temperature |-> snapshot.temperature])
             h3 == IF h.crop_geometry # None
                   THEN Alloc(h2, to_payload(h.objects[h.crop_geometry[1]])) ELSE h2
             payload ==
                 [base_image |-> base_image,
                  adjustment_state |-> NewId(h1),
                  current_image |-> h.current_adjusted_image[1],
                  metadata_text |-> w.flags.metadata_text,
                  crop_geometry |-> IF h.crop_geometry # None THEN Some(NewId(h2)) ELSE None]
         IN [h3 EXCEPT !.image_store =
                 push_state(@, ImageState(h.image_store.current[1].path, description,
                                          Some(payload))).store]

\* _push_state(description, image) with image = current_adjusted_image: the
\* payload refers to session.current_base() (a copy), a new dict of five
\* numbers, image.copy(), the metadata string and crop_geometry.to_payload()
heap_push_state(h, w, description) ==
    IF ~Truthy(h.image_store.current) THEN h
    ELSE LET h1 == IF h.base_image # None THEN Alloc(h, h.objects[h.base_image[1]]) ELSE h
             base_image == IF h.base_image # None THEN Some(NewId(h)) ELSE None
             snapshot == h.objects[h.state[1]]
             h2 == Alloc(h1, [brightness |-> snapshot.brightness,
                              contrast |-> snapshot.contrast,
                              saturation |-> snapshot.saturation,
                              sharpness |-> snapshot.sharpness,
                              temperature |-> snapshot.temperature])
             h3 == Alloc(h2, h.objects[h.current_adjusted_image[1]])
             h4 == IF h.crop_geometry # None
                   THEN Alloc(h3, to_payload(h.objects[h.crop_geometry[1]])) ELSE h3
             payload ==
                 [base_image |-> base_image,
                  adjustment_state |-> NewId(h1),
                  current_image |-> NewId(h2),
                  metadata_text |-> w.flags.metadata_text,
                  crop_geometry |-> IF h.crop_geometry # None THEN Some(NewId(h3)) ELSE None]
         IN [h4 EXCEPT !.image_store =
                 push_state(@, ImageState(h.image_store.current[1].path, description,
                                          Some(payload))).store]

\* _commit_current_state(description)
heap_commit_current_state(h, w, description) ==
    IF h.current_adjusted_image = None THEN h ELSE heap_push_state(h, w, description)

\* _handle_file_drop(path): the store is loaded, _reset_internal_state makes
\* a new session and a new state, and a file that decodes gives a new
\* original, its copies as base, rendered and displayed image, and
\* adjustment_controller.reset() a new state; w is the window afterwards
heap_handle_file_drop(h, w, path, outcome) ==
    IF outcome \in {"missing", "unsupported"} THEN h
    ELSE LET h1 == [h EXCEPT !.image_store = load(@, path).store,
                             !.original_image = None,
                             !.base_image = None,
                             !.current_adjusted_image = None,
                             !.crop_geometry = None]
             h2 == Put(h1, "state", DefaultState)
         IN IF outcome # "ok" THEN h2
            ELSE Renew(h2, w, <<"original_image", "base_image", "current_adjusted_image",
                                "pil_image", "state">>)

\* a slider is moved: update_*() assigns to a field of the controller's
\* state object, and the listener renders a new image when one is loaded;
\* w is the window afterwards
heap_on_factor_slider_change(h, w) ==
    LET h1 == [h EXCEPT !.objects[h.state[1]] = w.adjustment_controller.state] IN
    IF h.base_image = None THEN h1
    ELSE Renew(h1, w, <<"current_adjusted_image", "pil_image">>)

\* _commit_factor_state(title)
heap_commit_slider_state(h, w, description) ==
    IF h.base_image = None THEN h ELSE heap_commit_current_state(h, w, description)

\* _ratio_button_clicked(button, label, ratio): a deactivation drops the
\* crop geometry; an activation enters crop mode, where the base image
\* becomes a copy of the original and is displayed; w is the window before,
\* w2 the window afterwards
heap_ratio_button_clicked(h, w, w2, label) ==
    IF w.flags.active_ratio_button = Some(label) THEN [h EXCEPT !.crop_geometry = None]
    ELSE IF h.base_image = None THEN h
    ELSE Renew([h EXCEPT !.current_adjusted_image = None, !.crop_geometry = None],
               w2, <<"base_image", "pil_image">>)

\* apply_crop(): a crop that succeeds builds a CropGeometry, copies the
\* cropped image into the session, resets the controller, renders and
\* commits; r is what apply_crop gave for the window
heap_apply_crop(h, r, description) ==
    IF r.error # None THEN h
    ELSE heap_commit_current_state(
             Renew(h, r.w, <<"crop_geometry", "base_image", "state",
                             "current_adjusted_image", "pil_image">>),
             r.w, description)

\* _restore_from_payload(payload): the session gets a copy of base.copy()
\* or is replaced, the controller a newly built AdjustmentState, the window
\* current.copy(), the canvas a copy of that, and CropGeometry.from_payload
\* builds the geometry
heap_restore_from_payload(h, payload) ==
    LET h1 == IF payload.base_image # None
              THEN Put(h, "base_image", h.objects[payload.base_image[1]])
              ELSE [h EXCEPT !.original_image = None, !.base_image = None]
        adj == h.objects[payload.adjustment_state]
        h2 == Put(h1, "state",
                  AdjustmentState(Get(adj, "brightness", 100), Get(adj, "contrast", 100),
                                  Get(adj, "saturation", 100), Get(adj, "sharpness", 100),
                                  Get(adj, "temperature", 0), Get(adj, "red_balance", 0),
                                  Get(adj, "green_balance", 0), Get(adj, "blue_balance", 0)))
        h3 == Put(h2, "current_adjusted_image", h.objects[payload.current_image])
        h4 == Put(h3, "pil_image", h.objects[payload.current_image])
        geometry == IF payload.crop_geometry = None THEN None
                    ELSE from_payload(Some(h.objects[payload.crop_geometry[1]]))
    IN IF geometry = None THEN [h4 EXCEPT !.crop_geometry = None]
       ELSE Put(h4, "crop_geometry", geometry[1])

\* undo_change()
heap_undo_change(h) ==
    LET r == undo(h.image_store)
        h1 == [h EXCEPT !.image_store = r.store]
    IN IF ~Restorable(r.ret) THEN h1 ELSE heap_restore_from_payload(h1, r.ret[1].payload[1])

\* redo_change()
heap_redo_change(h) ==
    LET r == redo(h.image_store)
        h1 == [h EXCEPT !.image_store = r.store]
    IN IF ~Restorable(r.ret) THEN h1 ELSE heap_restore_from_payload(h1, r.ret[1].payload[1])

(***************************************************************************)
(* The AdjustmentController on its own, driven by arbitrary calls          *)
(***************************************************************************)
\* callbacks a caller may register
Callbacks == {"on_change", "other"}
\* field names handed to update_factor: the four factor fields, a name of
\* no field, and the name of a field that is not a factor
FieldNames == FactorFields \cup {"invalid", "temperature"}
\* factor values in hundredths: below, at the lower bound, inside, above
FactorInputs == {10, 20, 150, 500}
\* integer values: far below, at the lower bound, inside, far above
BalanceInputs == {-500, -100, 20, 500}
\* states handed to set_state
StateInputs ==
    { DefaultState,
      AdjustmentState(150, 80, 100, 100, 20, 0, 0, 0),
      AdjustmentState(500, 100, 100, 100, 0, 0, 0, 0),
      AdjustmentState(100, 100, 100, 100, -500, 0, 0, 0) }

Mutators == {"reset", "set_state", "update_factor", "update_temperature",
             "update_red_balance", "update_green_balance", "update_blue_balance"}

ctlVars == <<state, listener, ctl_call, notified, mutations, calls, only_updates>>

\* AdjustmentController(on_change) with or without a listener, beside an
\* untouched ImageStore
ControllerInit ==
    /\ \E on_change \in {None, Some("on_change")} :
          /\ state = AdjustmentController(on_change).state
          /\ listener = AdjustmentController(on_change).listener
          /\ ctl_call = [op |-> "new", arg |-> None, raised |-> FALSE, emitted |-> <<>>,
                         pre |-> AdjustmentController(on_change)]
    /\ notified = 0
    /\ mutations = 0
    /\ calls = 0
    /\ only_updates = TRUE
    /\ original = None
    /\ current = None
    /\ undo_stack = <<>>
    /\ redo_stack = <<>>
    /\ call = [op |-> "new", arg |-> None, ret |-> None,
               pre |-> [original |-> None, current |-> None,
                        undo_stack |-> <<>>, redo_stack |-> <<>>]]
    /\ pushed_original = FALSE
    /\ session = ImageSession
    /\ current_adjusted_image = None
    /\ canvas = None
    /\ window = MainWindowFlags
    /\ round_trip = NoRoundTrip
    /\ heap = MainWindowHeap
    /\ args = [fn |-> "none"]
    /\ result = None

\* the controller takes the value a method produced, and the call is recorded
ControllerCall(op, arg, r) ==
    /\ calls < MaxCalls
    /\ calls' = calls + 1
    /\ state' = r.ctl.state
    /\ listener' = r.ctl.listener
    /\ ctl_call' = [op |-> op, arg |-> arg, raised |-> r.raised, emitted |-> r.emitted,
                    pre |-> Controller]
    /\ notified' = notified + Len(r.emitted)
    /\ mutations' = IF op \in Mutators /\ ~r.raised /\ Truthy(listener)
                    THEN mutations + 1 ELSE mutations
    /\ only_updates' = CASE op = "reset" -> TRUE
                         [] op = "set_state" -> FALSE
                         [] OTHER -> only_updates
    /\ UNCHANGED <<original, current, undo_stack, redo_stack, call, pushed_original>>
    /\ UNCHANGED <<session, current_adjusted_image, canvas, window, round_trip, args, result, heap>>

CallSetListener ==
    \E cb \in Callbacks : ControllerCall("set_listener", <<cb>>, set_listener(Controller, cb))

CallReset == ControllerCall("reset", <<>>, reset(Controller))

CallSetState ==
    \E s \in StateInputs : ControllerCall("set_state", <<s>>, set_state(Controller, s))

CallUpdateFactor ==
    \E field \in FieldNames, value \in FactorInputs :
        ControllerCall("update_factor", <<field, value>>, update_factor(Controller, field, value))

CallUpdateTemperature ==
    \E value \in BalanceInputs :
        ControllerCall("update_temperature", <<"temperature", value>>,
                       update_temperature(Controller, value))

CallUpdateRedBalance ==
    \E value \in BalanceInputs :
        ControllerCall("update_red_balance", <<"red_balance", value>>,
                       update_red_balance(Controller, value))

CallUpdateGreenBalance ==
    \E value \in BalanceInputs :
        ControllerCall("update_green_balance", <<"green_balance", value>>,
                       update_green_balance(Controller, value))

CallUpdateBlueBalance ==
    \E value \in BalanceInputs :
        ControllerCall("update_blue_balance", <<"blue_balance", value>>,
                       update_blue_balance(Controller, value))

ControllerNext ==
    \/ CallSetListener
    \/ CallReset
    \/ CallSetState
    \/ CallUpdateFactor
    \/ CallUpdateTemperature
    \/ CallUpdateRedBalance
    \/ CallUpdateGreenBalance
    \/ CallUpdateBlueBalance

(***************************************************************************)
(* The ImageStore on its own, driven by arbitrary calls                    *)
(***************************************************************************)
storeVars == <<original, current, undo_stack, redo_stack>>

\* ImageStore() beside an untouched controller
StoreInit ==
    /\ original = ImageStore.original
    /\ current = ImageStore.current
    /\ undo_stack = ImageStore.undo_stack
    /\ redo_stack = ImageStore.redo_stack
    /\ call = [op |-> "new", arg |-> None, ret |-> None, pre |-> ImageStore]
    /\ pushed_original = FALSE
    /\ state = DefaultState
    /\ listener = None
    /\ ctl_call = [op |-> "new", arg |-> None, raised |-> FALSE, emitted |-> <<>>,
                   pre |-> AdjustmentController(None)]
    /\ notified = 0
    /\ mutations = 0
    /\ calls = 0
    /\ only_updates = TRUE
    /\ session = ImageSession
    /\ current_adjusted_image = None
    /\ canvas = None
    /\ window = MainWindowFlags
    /\ round_trip = NoRoundTrip
    /\ heap = MainWindowHeap
    /\ args = [fn |-> "none"]
    /\ result = None

\* the store takes the value a method produced, and the call is recorded
StoreCall(op, arg, r) ==
    /\ original' = r.store.original
    /\ current' = r.store.current
    /\ undo_stack' = r.store.undo_stack
    /\ redo_stack' = r.store.redo_stack
    /\ call' = [op |-> op, arg |-> arg, ret |-> r.ret, pre |-> Store]
    /\ pushed_original' =
          CASE op = "push_state" -> pushed_original \/ arg = original
            [] op \in {"load", "reset_to_original"} -> FALSE
            [] OTHER -> pushed_original
    /\ UNCHANGED <<state, listener, ctl_call, notified, mutations, calls, only_updates>>
    /\ UNCHANGED <<session, current_adjusted_image, canvas, window, round_trip, args, result, heap>>

CallLoad == \E p \in Paths : StoreCall("load", Some(p), load(Store, p))

CallPushState ==
    /\ Len(undo_stack) < MaxHist
    /\ \E s \in Snapshots : StoreCall("push_state", Some(s), push_state(Store, s))

CallUndo == StoreCall("undo", None, undo(Store))

CallRedo == StoreCall("redo", None, redo(Store))

CallResetToOriginal == StoreCall("reset_to_original", None, reset_to_original(Store))

StoreNext ==
    \/ CallLoad
    \/ CallPushState
    \/ CallUndo
    \/ CallRedo
    \/ CallResetToOriginal

(***************************************************************************)
(* The MainWindow driven by user events                                    *)
(***************************************************************************)
\* what a dropped file can turn out to be
Outcomes == {"missing", "unsupported", "undecodable", "ok"}
\* the factor sliders moved, and the positions they are moved to (20..200)
SliderFields == {"brightness"}
SliderValues == {150}
\* positions the temperature slider and the red balance slider are moved to
\* (-100..100); the green and blue sliders are wired like the red one
TemperatureValues == {20}
BalanceValues == {10}
\* descriptions built by the sliderReleased handlers (f"{title} angepasst")
SliderDescriptions == {"Helligkeit angepasst"}

\* MainWindow(settings) after construction; the controller is created with
\* _on_adjustment_state_change as its listener
WindowInit ==
    /\ original = None
    /\ current = None
    /\ undo_stack = <<>>
    /\ redo_stack = <<>>
    /\ call = [op |-> "new", arg |-> None, ret |-> None,
               pre |-> [original |-> None, current |-> None,
                        undo_stack |-> <<>>, redo_stack |-> <<>>]]
    /\ pushed_original = FALSE
    /\ state = DefaultState
    /\ listener = Some("on_change")
    /\ ctl_call = [op |-> "new", arg |-> None, raised |-> FALSE, emitted |-> <<>>,
                   pre |-> [state |-> DefaultState, listener |-> Some("on_change")]]
    /\ notified = 0
    /\ mutations = 0
    /\ calls = 0
    /\ only_updates = TRUE
    /\ session = [path |-> None, original_image |-> None, base_image |-> None,
                  ratio |-> RatioSelection]
    /\ current_adjusted_image = None
    /\ canvas = None
    /\ window = [controls_enabled |-> FALSE, has_ratio_selection |-> FALSE,
                 current_image_path |-> None, metadata_text |-> "",
                 metadata_dirty |-> FALSE, crop_geometry |-> None, balance_mode |-> 0,
                 active_ratio_button |-> None, selection |-> None,
                 custom_ratio_tuple |-> None]
    /\ round_trip = [phase |-> "none", state |-> DefaultState, image |-> None]
    /\ heap = MainWindowHeap
    /\ args = [fn |-> "none"]
    /\ result = None

\* the window takes the value a handler produced
WindowStepHeap(w, observed, observed_args, observed_result, h) ==
    /\ heap' = h
    /\ original' = w.image_store.original
    /\ current' = w.image_store.current
    /\ undo_stack' = w.image_store.undo_stack
    /\ redo_stack' = w.image_store.redo_stack
    /\ state' = w.adjustment_controller.state
    /\ listener' = w.adjustment_controller.listener
    /\ session' = w.session
    /\ current_adjusted_image' = w.current_adjusted_image
    /\ canvas' = w.canvas
    /\ window' = w.flags
    /\ round_trip' = observed
    /\ args' = observed_args
    /\ result' = observed_result
    /\ UNCHANGED <<call, pushed_original, ctl_call, notified, mutations, calls, only_updates>>

\* the window takes the value a handler produced; the objects behind it are
\* not followed
WindowStepObserved(w, observed, observed_args, observed_result) ==
    WindowStepHeap(w, observed, observed_args, observed_result, heap)

\* a handler whose outcome is not recorded
WindowStep(w, observed) == WindowStepObserved(w, observed, [fn |-> "none"], None)

\* a handler of which the name is recorded
WindowHandler(fn, w, observed) == WindowStepObserved(w, observed, [fn |-> fn], None)

\* a handler that commits: the sequence starts when a snapshot was pushed
Committed(w) ==
    IF w.image_store # Store THEN [NoRoundTrip EXCEPT !.phase = "committed"] ELSE NoRoundTrip

FileDrop ==
    \E path \in Paths, outcome \in Outcomes :
        WindowStepObserved(handle_file_drop(Window, path, outcome), NoRoundTrip,
                           [fn |-> "handle_file_drop",
                            loaded |-> outcome \notin {"missing", "unsupported"}], None)

FactorSliderChange ==
    /\ window.controls_enabled
    /\ \E field \in SliderFields, value \in SliderValues :
          WindowHandler("on_factor_slider_change",
                        on_factor_slider_change(Window, field, value), NoRoundTrip)

TemperatureChanged ==
    /\ window.controls_enabled
    /\ \E value \in TemperatureValues :
          WindowHandler("temperature_changed", temperature_changed(Window, value),
                        NoRoundTrip)

RedBalanceChanged ==
    /\ window.controls_enabled
    /\ \E value \in BalanceValues :
          WindowHandler("red_balance_changed", red_balance_changed(Window, value),
                        NoRoundTrip)

CommitSliderState ==
    /\ window.controls_enabled
    /\ Len(undo_stack) < MaxCommits
    /\ \E description \in SliderDescriptions :
          LET w == commit_slider_state(Window, description)
          IN WindowHandler("commit_slider_state", w, Committed(w))

ResetSlidersClicked ==
    /\ Len(undo_stack) < MaxCommits
    /\ LET w == reset_sliders_clicked(Window)
       IN WindowHandler("reset_sliders_clicked", w, Committed(w))

UndoChange ==
    WindowHandler("undo_change", undo_change(Window),
               IF round_trip.phase = "committed"
               THEN [phase |-> "undone", state |-> state, image |-> canvas]
               ELSE NoRoundTrip)

RedoChange ==
    WindowHandler("redo_change", redo_change(Window),
               IF round_trip.phase = "undone"
               THEN [round_trip EXCEPT !.phase = "redone"]
               ELSE NoRoundTrip)

\* the preset ratio button pressed, and the points a selection is dragged to
RatioButtons == {<<<<"1", ":", "1">>, <<1, 1>>>>}
DragPoints == {<<0, 0>>, <<9, 1>>}

RatioButtonClicked ==
    \E button \in RatioButtons :
        WindowStepObserved(ratio_button_clicked(Window, button[1], button[2]), NoRoundTrip,
                           [fn |-> "ratio_button_clicked", label |-> button[1]], None)

\* the sizes the custom ratio dialog is accepted with; None is a cancelled dialog
DialogSelections == {None, Some(<<1, 1>>), Some(<<5, 4>>)}

\* the custom ratio button pressed, with or without Shift
CustomRatioButtonClicked ==
    \E shift \in BOOLEAN, dialog \in DialogSelections :
        WindowStepObserved(custom_ratio_button_clicked(Window, shift, dialog), NoRoundTrip,
                           [fn |-> "ratio_button_clicked", label |-> CustomLabel], None)

MoveSelection ==
    /\ window.selection # None
    /\ \E new_top_left \in DragPoints :
          WindowStep(move_selection(Window, new_top_left), NoRoundTrip)

\* a crop keeps the adjustments of the displayed image in the new base
\* image; crops are tried while the displayed image carries at most this many
MaxBaked == 1

\* apply_crop(); the window as it was and the error shown are recorded
ApplyCrop ==
    /\ Len(undo_stack) < MaxCommits
    /\ canvas # None => Len(canvas[1].ops) <= MaxBaked
    /\ LET r == apply_crop(Window) IN
       WindowStepObserved(r.w, Committed(r.w), [fn |-> "apply_crop", pre |-> Window],
                          Some([error |-> r.error]))

\* the auto-balance button; the window as it was is recorded
AutoColorBalance ==
    /\ Len(undo_stack) < MaxCommits
    /\ LET w == auto_color_balance(Window)
       IN WindowStepObserved(w, Committed(w), [fn |-> "auto_color_balance", pre |-> Window],
                             None)

ResetToOriginal ==
    \E confirmed \in BOOLEAN, outcome \in Outcomes :
        WindowHandler("reset_to_original",
                      window_reset_to_original(Window, confirmed, outcome), NoRoundTrip)

DeleteSelectedImages ==
    \E paths \in SUBSET Paths, confirmed \in BOOLEAN :
        WindowHandler("delete_selected_images",
                      delete_selected_images(Window, paths, confirmed), NoRoundTrip)

\* balancing in the window: a file is dropped, the auto-balance button and
\* the reset button are pressed, the original is restored, files are deleted,
\* changes are undone
WindowBalanceNext ==
    \/ FileDrop
    \/ AutoColorBalance
    \/ ResetSlidersClicked
    \/ ResetToOriginal
    \/ DeleteSelectedImages
    \/ UndoChange

\* changing and committing in the window: a file is dropped, sliders are
\* moved and released, the reset and auto-balance buttons are pressed, a
\* ratio is chosen and the crop applied; sliders are moved while another
\* commit can follow
WindowCommitNext ==
    \/ FileDrop
    \/ Len(undo_stack) < MaxCommits /\ FactorSliderChange
    \/ Len(undo_stack) < MaxCommits /\ TemperatureChanged
    \/ Len(undo_stack) < MaxCommits /\ RedBalanceChanged
    \/ CommitSliderState
    \/ ResetSlidersClicked
    \/ AutoColorBalance
    \/ RatioButtonClicked
    \/ ApplyCrop

\* a handler runs and the objects behind the window follow it
HeapStep(fn, w, h) == WindowStepHeap(w, NoRoundTrip, [fn |-> fn], None, collect(h))

HeapFileDrop ==
    \E path \in Paths, outcome \in Outcomes :
        LET w == handle_file_drop(Window, path, outcome)
        IN HeapStep("handle_file_drop", w, heap_handle_file_drop(heap, w, path, outcome))

HeapFactorSliderChange ==
    /\ window.controls_enabled
    /\ \E field \in SliderFields, value \in SliderValues :
          LET w == on_factor_slider_change(Window, field, value)
          IN HeapStep("on_factor_slider_change", w, heap_on_factor_slider_change(heap, w))

HeapCommitSliderState ==
    /\ window.controls_enabled
    /\ Len(undo_stack) < MaxCommits
    /\ \E description \in SliderDescriptions :
          HeapStep("commit_slider_state", commit_slider_state(Window, description),
                   heap_commit_slider_state(heap, Window, description))

HeapRatioButtonClicked ==
    \E button \in RatioButtons :
        LET w == ratio_button_clicked(Window, button[1], button[2])
        IN HeapStep("ratio_button_clicked", w,
                    heap_ratio_button_clicked(heap, Window, w, button[1]))

HeapApplyCrop ==
    /\ Len(undo_stack) < MaxCommits
    /\ canvas # None => Len(canvas[1].ops) <= MaxBaked
    /\ LET r == apply_crop(Window)
           description == IF window.selection = None THEN ""
                          ELSE crop_description(window.selection[1].aspect_ratio)
       IN HeapStep("apply_crop", r.w, heap_apply_crop(heap, r, description))

HeapUndoChange == HeapStep("undo_change", undo_change(Window), heap_undo_change(heap))

HeapRedoChange == HeapStep("redo_change", redo_change(Window), heap_redo_change(heap))

\* the window with the objects behind it: a file is dropped, a slider moved
\* and released, a ratio chosen, the crop applied, changes undone and redone
WindowHeapNext ==
    \/ HeapFileDrop
    \/ HeapFactorSliderChange
    \/ HeapCommitSliderState
    \/ HeapRatioButtonClicked
    \/ HeapApplyCrop
    \/ HeapUndoChange
    \/ HeapRedoChange

\* choosing a ratio in the window: a file is dropped, a preset or the custom
\* ratio button pressed, the selection dragged, the crop applied
WindowRatioNext ==
    \/ FileDrop
    \/ RatioButtonClicked
    \/ CustomRatioButtonClicked
    \/ MoveSelection
    \/ ApplyCrop

\* cropping in the window: a file is dropped, a slider moved, a ratio
\* chosen, the selection dragged, the crop applied, the change undone
WindowCropNext ==
    \/ FileDrop
    \/ FactorSliderChange
    \/ RatioButtonClicked
    \/ MoveSelection
    \/ ApplyCrop
    \/ UndoChange

WindowNext ==
    \/ FileDrop
    \/ FactorSliderChange
    \/ TemperatureChanged
    \/ RedBalanceChanged
    \/ CommitSliderState
    \/ ResetSlidersClicked
    \/ UndoChange
    \/ RedoChange

(***************************************************************************)
(* Specifications                                                          *)
(***************************************************************************)
(***************************************************************************)
(* compute_crop_box on its own, called once on arguments drawn at the      *)
(* start                                                                   *)
(***************************************************************************)
\* largest selection coordinate and largest selection extent, in quarters
MaxCoord == 4
MaxSize == 4

\* selections: any origin up to MaxCoord, extents negative, zero or positive
SelectionRects ==
    {QRectF(x, y, w, h) : x \in 0..MaxCoord, y \in 0..MaxCoord,
                          w \in {-2} \cup 0..MaxSize, h \in {-2} \cup 0..MaxSize}
\* image display rectangles: one and two units wide, at the origin and
\* off it, and two without extent
ImageRects ==
    {QRectF(0, 0, 4, 4), QRectF(1, 2, 8, 8), QRectF(0, 0, 0, 4), QRectF(0, 0, 4, -4)}
\* the null pixmap and three pixmaps of one or two pixels a side
Pixmaps == {QPixmap(0, 0), QPixmap(1, 1), QPixmap(2, 2), QPixmap(1, 2)}
\* scales 1, 1/2, 2, 0 and -1
Scales == {<<1, 1>>, <<1, 2>>, <<2, 1>>, <<0, 1>>, <<-1, 1>>}

CropInit ==
    /\ \E s \in SelectionRects, r \in ImageRects, p \in Pixmaps, c \in Scales :
          args = [fn |-> "compute_crop_box", selection_rect |-> s, image_rect |-> r,
                  pixmap |-> p, current_scale |-> c]
    /\ result = None
    /\ original = None
    /\ current = None
    /\ undo_stack = <<>>
    /\ redo_stack = <<>>
    /\ call = [op |-> "new", arg |-> None, ret |-> None,
               pre |-> [original |-> None, current |-> None,
                        undo_stack |-> <<>>, redo_stack |-> <<>>]]
    /\ pushed_original = FALSE
    /\ state = DefaultState
    /\ listener = None
    /\ ctl_call = [op |-> "new", arg |-> None, raised |-> FALSE, emitted |-> <<>>,
                   pre |-> [state |-> DefaultState, listener |-> None]]
    /\ notified = 0
    /\ mutations = 0
    /\ calls = 0
    /\ only_updates = TRUE
    /\ session = ImageSession
    /\ current_adjusted_image = None
    /\ canvas = None
    /\ window = MainWindowFlags
    /\ round_trip = NoRoundTrip
    /\ heap = MainWindowHeap

ComputeCropBox ==
    /\ args.fn = "compute_crop_box"
    /\ result = None
    /\ result' = Some(compute_crop_box(args.selection_rect, args.image_rect,
                                       args.pixmap, args.current_scale))
    /\ UNCHANGED <<args, original, current, undo_stack, redo_stack, call, pushed_original,
                   state, listener, ctl_call, notified, mutations, calls, only_updates,
                   session, current_adjusted_image, canvas, window, round_trip, heap>>

CropNext == ComputeCropBox

(***************************************************************************)
(* build_variant_specs on its own, called once on a session and an image   *)
(* drawn at the start                                                      *)
(***************************************************************************)
Label_3_2 == <<"3", ":", "2">>
Label_custom == <<"?">>
Label_spaced == <<"5", " ", ":", " ", "4">>

\* rule tables a settings file can give: the built-in one, one without
\* "default", an empty one, one whose "16:9" list is empty, one that uses
\* the keywords on either axis and one with literal sizes below 1
RuleTables ==
    {DEFAULT_SETTINGS,
     Label_16_9 :> DEFAULT_SETTINGS[Label_16_9],
     <<>>,
     (Label_16_9 :> <<>>) @@ (Label_default :> DEFAULT_SETTINGS[Label_default]),
     (Label_default :> <<VariantRule("a", Keyword("auto"), Literal(600)),
                         VariantRule("b", Keyword("Auto"), Keyword("auto")),
                         VariantRule("c", Keyword("original"), Keyword("auto")),
                         VariantRule("d", Keyword("auto"), Keyword("Original")),
                         VariantRule("e", Literal(1), Keyword("auto"))>>)
        @@ (Label_3_2 :> <<VariantRule("", Literal(300), Literal(200))>>),
     Label_default :> <<VariantRule("z", Literal(0), Keyword("auto")),
                        VariantRule("n", Keyword("original"), Literal(-5))>>}

\* ratio selections: none, the presets, a label without configured rules, a
\* value that is not positive, no label, and labels with "?" and spaces
RatioSelections ==
    {RatioSelection,
     [label |-> Some(Label_16_9), value |-> Some(<<16, 9>>), custom_tuple |-> None],
     [label |-> Some(Label_9_16), value |-> Some(<<9, 16>>), custom_tuple |-> None],
     [label |-> Some(Label_3_2), value |-> Some(<<3, 2>>), custom_tuple |-> None],
     [label |-> Some(Label_3_2), value |-> Some(<<0, 1>>), custom_tuple |-> None],
     [label |-> Some(<<>>), value |-> Some(<<2, 1>>), custom_tuple |-> None],
     [label |-> None, value |-> Some(<<1, 3>>), custom_tuple |-> None],
     [label |-> Some(Label_custom), value |-> Some(<<5, 4>>), custom_tuple |-> Some(<<5, 4>>)],
     [label |-> Some(Label_spaced), value |-> Some(<<5, 4>>), custom_tuple |-> None]}

\* image sizes: those of the tests, small ones, and ones whose reduced
\* aspect ratio has a denominator above 100
ImageSizes ==
    {[width |-> 4000, height |-> 3000], [width |-> 1500, height |-> 1000],
     [width |-> 1024, height |-> 768], [width |-> 1, height |-> 1],
     [width |-> 1, height |-> 3000], [width |-> 1000, height |-> 333],
     [width |-> 1920, height |-> 1081], [width |-> 640, height |-> 427]}

VariantsInit ==
    /\ \E t \in RuleTables, r \in RatioSelections, i \in ImageSizes :
          args = [fn |-> "build_variant_specs", variant_rules |-> t, ratio |-> r, image |-> i]
    /\ result = None
    /\ original = None
    /\ current = None
    /\ undo_stack = <<>>
    /\ redo_stack = <<>>
    /\ call = [op |-> "new", arg |-> None, ret |-> None,
               pre |-> [original |-> None, current |-> None,
                        undo_stack |-> <<>>, redo_stack |-> <<>>]]
    /\ pushed_original = FALSE
    /\ state = DefaultState
    /\ listener = None
    /\ ctl_call = [op |-> "new", arg |-> None, raised |-> FALSE, emitted |-> <<>>,
                   pre |-> [state |-> DefaultState, listener |-> None]]
    /\ notified = 0
    /\ mutations = 0
    /\ calls = 0
    /\ only_updates = TRUE
    /\ session = ImageSession
    /\ current_adjusted_image = None
    /\ canvas = None
    /\ window = MainWindowFlags
    /\ round_trip = NoRoundTrip
    /\ heap = MainWindowHeap

BuildVariantSpecs ==
    /\ args.fn = "build_variant_specs"
    /\ result = None
    /\ result' = Some(build_variant_specs(args.variant_rules, args.ratio, args.image))
    /\ UNCHANGED <<args, original, current, undo_stack, redo_stack, call, pushed_original,
                   state, listener, ctl_call, notified, mutations, calls, only_updates,
                   session, current_adjusted_image, canvas, window, round_trip, heap>>

VariantsNext == BuildVariantSpecs

(***************************************************************************)
(* The ProcessingPipeline on its own: one call of resize_with_quality or   *)
(* generate_variants on arguments drawn at the start                       *)
(***************************************************************************)
\* longest list of widths handed to generate_variants
MaxWidths == 2

SourceImages == {Image(1200, 800), Image(960, 640), Image(1, 3), Image(3, 1), Image(2, 5), Image(3, 5)}
TargetWidths == {-1, 0, 1, 480, 960}
TargetHeights == {None, Some(1), Some(640)}
WidthLists == UNION {[1..n -> TargetWidths] : n \in 0..MaxWidths}

ProcessingInit ==
    /\ \/ \E i \in SourceImages, w \in TargetWidths, h \in TargetHeights :
             args = [fn |-> "resize_with_quality", image |-> i,
                     target_width |-> w, target_height |-> h]
       \/ \E i \in SourceImages, ws \in WidthLists :
             args = [fn |-> "generate_variants", image |-> i, target_widths |-> ws]
    /\ result = None
    /\ original = None
    /\ current = None
    /\ undo_stack = <<>>
    /\ redo_stack = <<>>
    /\ call = [op |-> "new", arg |-> None, ret |-> None,
               pre |-> [original |-> None, current |-> None,
                        undo_stack |-> <<>>, redo_stack |-> <<>>]]
    /\ pushed_original = FALSE
    /\ state = DefaultState
    /\ listener = None
    /\ ctl_call = [op |-> "new", arg |-> None, raised |-> FALSE, emitted |-> <<>>,
                   pre |-> [state |-> DefaultState, listener |-> None]]
    /\ notified = 0
    /\ mutations = 0
    /\ calls = 0
    /\ only_updates = TRUE
    /\ session = ImageSession
    /\ current_adjusted_image = None
    /\ canvas = None
    /\ window = MainWindowFlags
    /\ round_trip = NoRoundTrip
    /\ heap = MainWindowHeap

\* the outcome holds what was returned or raised and the image argument as
\* the callee left it
ResizeWithQuality ==
    /\ args.fn = "resize_with_quality"
    /\ result = None
    /\ result' = Some(resize_with_quality(args.image, args.target_width, args.target_height))
    /\ UNCHANGED <<args, original, current, undo_stack, redo_stack, call, pushed_original,
                   state, listener, ctl_call, notified, mutations, calls, only_updates,
                   session, current_adjusted_image, canvas, window, round_trip, heap>>

GenerateVariants ==
    /\ args.fn = "generate_variants"
    /\ result = None
    /\ result' = Some(generate_variants(args.image, args.target_widths))
    /\ UNCHANGED <<args, original, current, undo_stack, redo_stack, call, pushed_original,
                   state, listener, ctl_call, notified, mutations, calls, only_updates,
                   session, current_adjusted_image, canvas, window, round_trip, heap>>

ProcessingNext == ResizeWithQuality \/ GenerateVariants

(***************************************************************************)
(* The auto-balance heuristics on their own: one call on an image drawn at *)
(* the start                                                               *)
(***************************************************************************)
\* channel values: black, dark, three mid tones two apart or more, bright,
\* white
Levels == {0, 16, 90, 120, 122, 150, 200, 255}
PixelValues == {<<r, g, b>> : r \in Levels, g \in Levels, b \in Levels}
\* images of one pixel, and of one pixel beside a grey one
PixelArrays ==
    {<<p>> : p \in PixelValues} \cup {<<p, <<v, v, v>>>> : p \in PixelValues, v \in Levels}
Heuristics == {"calculate_auto_balance_photoshop_style",
               "calculate_auto_balance_conservative",
               "calculate_auto_balance_color_only"}

AutoBalanceInit ==
    /\ \E f \in Heuristics, a \in PixelArrays : args = [fn |-> f, arr |-> a]
    /\ result = None
    /\ original = None
    /\ current = None
    /\ undo_stack = <<>>
    /\ redo_stack = <<>>
    /\ call = [op |-> "new", arg |-> None, ret |-> None,
               pre |-> [original |-> None, current |-> None,
                        undo_stack |-> <<>>, redo_stack |-> <<>>]]
    /\ pushed_original = FALSE
    /\ state = DefaultState
    /\ listener = None
    /\ ctl_call = [op |-> "new", arg |-> None, raised |-> FALSE, emitted |-> <<>>,
                   pre |-> [state |-> DefaultState, listener |-> None]]
    /\ notified = 0
    /\ mutations = 0
    /\ calls = 0
    /\ only_updates = TRUE
    /\ session = ImageSession
    /\ current_adjusted_image = None
    /\ canvas = None
    /\ window = MainWindowFlags
    /\ round_trip = NoRoundTrip
    /\ heap = MainWindowHeap

CalculatePhotoshopStyle ==
    /\ args.fn = "calculate_auto_balance_photoshop_style"
    /\ result = None
    /\ result' = Some(calculate_auto_balance_photoshop_style(args.arr))
    /\ UNCHANGED <<args, original, current, undo_stack, redo_stack, call, pushed_original,
                   state, listener, ctl_call, notified, mutations, calls, only_updates,
                   session, current_adjusted_image, canvas, window, round_trip, heap>>

CalculateConservative ==
    /\ args.fn = "calculate_auto_balance_conservative"
    /\ result = None
    /\ result' = Some(calculate_auto_balance_conservative(args.arr))
    /\ UNCHANGED <<args, original, current, undo_stack, redo_stack, call, pushed_original,
                   state, listener, ctl_call, notified, mutations, calls, only_updates,
                   session, current_adjusted_image, canvas, window, round_trip, heap>>

CalculateColorOnly ==
    /\ args.fn = "calculate_auto_balance_color_only"
    /\ result = None
    /\ result' = Some(calculate_auto_balance_color_only(args.arr))
    /\ UNCHANGED <<args, original, current, undo_stack, redo_stack, call, pushed_original,
                   state, listener, ctl_call, notified, mutations, calls, only_updates,
                   session, current_adjusted_image, canvas, window, round_trip, heap>>

AutoBalanceNext == CalculatePhotoshopStyle \/ CalculateConservative \/ CalculateColorOnly

(***************************************************************************)
(* CropGeometry payloads on their own                                      *)
(***************************************************************************)
\* rectangles (x, y, w, h) in quarters of a display unit
RectTuples ==
    {<<0, 0, 800, 600>>, <<80, 80, 640, 480>>, <<-40, 10, 1, 1>>, <<0, 0, 0, 0>>,
     <<1, 0, 800, 600>>, <<0, 2, 800, 600>>, <<900, 700, 40, 40>>}

GeometryScales == {<<1, 1>>, <<1, 2>>, <<3, 2>>, <<1, 1000000>>}

CropGeometries ==
    {CropGeometry(sel, bounds, scale) : sel \in RectTuples, bounds \in RectTuples,
                                        scale \in GeometryScales}

\* payloads as they may be found in a history snapshot: none, an empty dict,
\* dicts lacking keys, and lists that do not have four entries
Payloads ==
    {None, Some(<<>>),
     Some([scale |-> <<1, 2>>]),
     Some([selection |-> list(<<0, 0, 800, 600>>)]),
     Some([image_bounds |-> list(<<0, 0, 800, 600>>), scale |-> <<1, 1>>]),
     Some([selection |-> list(<<0, 0, 800>>), image_bounds |-> list(<<0, 0, 800, 600>>),
           scale |-> <<1, 1>>]),
     Some([selection |-> list(<<0, 0, 800, 600>>),
           image_bounds |-> list(<<0, 0, 800, 600, 4>>), scale |-> <<1, 1>>]),
     Some([selection |-> list(<<>>), image_bounds |-> list(<<>>), scale |-> <<1, 1>>]),
     Some([selection |-> list(<<0, 0, 800, 600>>),
           image_bounds |-> list(<<80, 80, 640, 480>>)])}

GeometryInit ==
    /\ \/ \E g \in CropGeometries : args = [fn |-> "to_payload", g |-> g]
       \/ \E g \in CropGeometries : args = [fn |-> "has_whitespace", g |-> g]
       \/ \E data \in Payloads : args = [fn |-> "from_payload", data |-> data]
    /\ result = None
    /\ original = None
    /\ current = None
    /\ undo_stack = <<>>
    /\ redo_stack = <<>>
    /\ call = [op |-> "new", arg |-> None, ret |-> None,
               pre |-> [original |-> None, current |-> None,
                        undo_stack |-> <<>>, redo_stack |-> <<>>]]
    /\ pushed_original = FALSE
    /\ state = DefaultState
    /\ listener = None
    /\ ctl_call = [op |-> "new", arg |-> None, raised |-> FALSE, emitted |-> <<>>,
                   pre |-> [state |-> DefaultState, listener |-> None]]
    /\ notified = 0
    /\ mutations = 0
    /\ calls = 0
    /\ only_updates = TRUE
    /\ session = ImageSession
    /\ current_adjusted_image = None
    /\ canvas = None
    /\ window = MainWindowFlags
    /\ round_trip = NoRoundTrip
    /\ heap = MainWindowHeap

\* g.to_payload() handed to from_payload
PayloadRoundTrip ==
    /\ args.fn = "to_payload"
    /\ result = None
    /\ result' = Some(from_payload(Some(to_payload(args.g))))
    /\ UNCHANGED <<args, original, current, undo_stack, redo_stack, call, pushed_original,
                   state, listener, ctl_call, notified, mutations, calls, only_updates,
                   session, current_adjusted_image, canvas, window, round_trip, heap>>

FromPayload ==
    /\ args.fn = "from_payload"
    /\ result = None
    /\ result' = Some(from_payload(args.data))
    /\ UNCHANGED <<args, original, current, undo_stack, redo_stack, call, pushed_original,
                   state, listener, ctl_call, notified, mutations, calls, only_updates,
                   session, current_adjusted_image, canvas, window, round_trip, heap>>

HasWhitespace ==
    /\ args.fn = "has_whitespace"
    /\ result = None
    /\ result' = Some(has_whitespace(args.g))
    /\ UNCHANGED <<args, original, current, undo_stack, redo_stack, call, pushed_original,
                   state, listener, ctl_call, notified, mutations, calls, only_updates,
                   session, current_adjusted_image, canvas, window, round_trip, heap>>

GeometryNext == PayloadRoundTrip \/ FromPayload \/ HasWhitespace

(***************************************************************************)
(* apply_adjustments on its own                                            *)
(***************************************************************************)
\* input images: an RGB one, one with an alpha channel, a greyscale one and
\* one that went through a stage before
InputImages ==
    {[src |-> "a.jpg", crop |-> None, ops |-> <<>>, mode |-> "RGB"],
     [src |-> "a.jpg", crop |-> Some(<<0, 0, 1, 1>>), ops |-> <<>>, mode |-> "RGBA"],
     [src |-> "b.jpg", crop |-> None, ops |-> <<>>, mode |-> "L"],
     [src |-> "b.jpg", crop |-> None, ops |-> << <<"contrast", 120>> >>, mode |-> "RGB"]}

\* adjustment states with every field at its neutral value or away from it
InputStates ==
    {AdjustmentState(b, c, sa, sh, t, rb, gb, bb) :
        b \in {100, 120}, c \in {100, 80}, sa \in {100, 150}, sh \in {100, 300},
        t \in {0, -30}, rb \in {0, 10}, gb \in {0, -10}, bb \in {0, 100}}

AdjustInit ==
    /\ \E image \in InputImages, st \in InputStates :
          args = [fn |-> "apply_adjustments", image |-> image, state |-> st]
    /\ result = None
    /\ original = None
    /\ current = None
    /\ undo_stack = <<>>
    /\ redo_stack = <<>>
    /\ call = [op |-> "new", arg |-> None, ret |-> None,
               pre |-> [original |-> None, current |-> None,
                        undo_stack |-> <<>>, redo_stack |-> <<>>]]
    /\ pushed_original = FALSE
    /\ state = DefaultState
    /\ listener = None
    /\ ctl_call = [op |-> "new", arg |-> None, raised |-> FALSE, emitted |-> <<>>,
                   pre |-> [state |-> DefaultState, listener |-> None]]
    /\ notified = 0
    /\ mutations = 0
    /\ calls = 0
    /\ only_updates = TRUE
    /\ session = ImageSession
    /\ current_adjusted_image = None
    /\ canvas = None
    /\ window = MainWindowFlags
    /\ round_trip = NoRoundTrip
    /\ heap = MainWindowHeap

ApplyAdjustments ==
    /\ args.fn = "apply_adjustments"
    /\ result = None
    /\ result' = Some(apply_adjustments(args.image, args.state))
    /\ UNCHANGED <<args, original, current, undo_stack, redo_stack, call, pushed_original,
                   state, listener, ctl_call, notified, mutations, calls, only_updates,
                   session, current_adjusted_image, canvas, window, round_trip, heap>>

AdjustNext == ApplyAdjustments

(***************************************************************************)
(* An ImageSession driven by arbitrary calls of its methods                *)
(***************************************************************************)
\* images handed to set_base_image: the decoded files, a crop, an adjusted one
SessionImages ==
    {Decoded(p) : p \in Paths}
    \cup {[Decoded("a.jpg") EXCEPT !.crop = Some(<<0, 0, 1, 1>>)],
          apply_adjustments(Decoded("b.jpg"), [DefaultState EXCEPT !.contrast = 120])}

SessionRatios ==
    {<<Some(Label_16_9), Some(<<16, 9>>), None>>,
     <<Some(Label_custom), Some(<<5, 4>>), Some(<<5, 4>>)>>}

SessionStates == {DefaultState, [DefaultState EXCEPT !.brightness = 80, !.red_balance = 10]}

SessionInit ==
    /\ args = [fn |-> "new", pre |-> ImageSession]
    /\ result = None
    /\ original = None
    /\ current = None
    /\ undo_stack = <<>>
    /\ redo_stack = <<>>
    /\ call = [op |-> "new", arg |-> None, ret |-> None,
               pre |-> [original |-> None, current |-> None,
                        undo_stack |-> <<>>, redo_stack |-> <<>>]]
    /\ pushed_original = FALSE
    /\ state = DefaultState
    /\ listener = None
    /\ ctl_call = [op |-> "new", arg |-> None, raised |-> FALSE, emitted |-> <<>>,
                   pre |-> [state |-> DefaultState, listener |-> None]]
    /\ notified = 0
    /\ mutations = 0
    /\ calls = 0
    /\ only_updates = TRUE
    /\ session = ImageSession
    /\ current_adjusted_image = None
    /\ canvas = None
    /\ window = MainWindowFlags
    /\ round_trip = NoRoundTrip
    /\ heap = MainWindowHeap

\* a call of a session method: the session as the method left it, the
\* session as it was, and whether the method raised
SessionCall(fn, outcome) ==
    /\ session' = outcome.session
    /\ args' = [fn |-> fn, pre |-> session]
    /\ result' = Some([raised |-> outcome.raised, ret |-> outcome.ret])
    /\ UNCHANGED <<original, current, undo_stack, redo_stack, call, pushed_original, state,
                   listener, ctl_call, notified, mutations, calls, only_updates,
                   current_adjusted_image, canvas, window, round_trip, heap>>

SessionLoad ==
    \E path \in Paths, decodes \in BOOLEAN :
        SessionCall("load", session_load(session, path, decodes))

SessionCurrentBase == SessionCall("current_base", current_base(session))

SessionSetBaseImage ==
    \E image \in SessionImages :
        SessionCall("set_base_image", SessionReturned(set_base_image(session, image), None))

SessionResetBaseToOriginal ==
    SessionCall("reset_base_to_original", reset_base_to_original(session))

SessionSetRatio ==
    \E r \in SessionRatios :
        SessionCall("set_ratio", SessionReturned(set_ratio(session, r[1], r[2], r[3]), None))

SessionClearRatio == SessionCall("clear_ratio", SessionReturned(clear_ratio(session), None))

SessionApplyAdjustments ==
    \E st \in SessionStates :
        SessionCall("apply_adjustments", session_apply_adjustments(session, st))

SessionBuildVariantSpecs ==
    \E t \in {DEFAULT_SETTINGS, <<>>}, image \in {[width |-> 1500, height |-> 1000]} :
        SessionCall("build_variant_specs", session_build_variant_specs(session, t, image))

SessionNext ==
    \/ SessionLoad
    \/ SessionCurrentBase
    \/ SessionSetBaseImage
    \/ SessionResetBaseToOriginal
    \/ SessionSetRatio
    \/ SessionClearRatio
    \/ SessionApplyAdjustments
    \/ SessionBuildVariantSpecs

(***************************************************************************)
(* The ExportService on its own: one call of export_variants on arguments  *)
(* drawn at the start                                                      *)
(***************************************************************************)
\* longest list of variants handed to export_variants
MaxVariants == 2

\* the default configuration and one with another format
ExportConfigs == {ExportConfig("WEBP", 85, 4), ExportConfig("PNG", 85, 4)}
\* base paths: one extension, two dots, no extension
BasePaths ==
    {Path("/photos", <<"a", ".", "j", "p", "g">>),
     Path("/out", <<"a", ".", "b", ".", "p", "n", "g">>),
     Path("/photos", <<"a">>)}
ExportVariants ==
    {ExportVariant(<<"_", "_">>, <<1200, 600>>, <<"1", "6", "x", "9">>, Image(1200, 600)),
     ExportVariant(<<"_">>, <<960, 480>>, <<"1", "6", "x", "9">>, Image(960, 480)),
     ExportVariant(<<>>, <<480, 240>>, <<"1", "6", "x", "9">>, Image(480, 240))}
VariantLists == UNION {[1..n -> ExportVariants] : n \in 0..MaxVariants}
\* metadata_bytes: None, empty, a key=value line
MetadataBytes == {None, Some(<<>>), Some(<<"k", "=", "v">>)}

ExportInit ==
    /\ \E c \in ExportConfigs, b \in BasePaths, vs \in VariantLists, m \in MetadataBytes,
          f \in 0..MaxVariants :
          args = [fn |-> "export_variants", config |-> c, base_path |-> b, variants |-> vs,
                  metadata_bytes |-> m, failing_save |-> f]
    /\ result = None
    /\ original = None
    /\ current = None
    /\ undo_stack = <<>>
    /\ redo_stack = <<>>
    /\ call = [op |-> "new", arg |-> None, ret |-> None,
               pre |-> [original |-> None, current |-> None,
                        undo_stack |-> <<>>, redo_stack |-> <<>>]]
    /\ pushed_original = FALSE
    /\ state = DefaultState
    /\ listener = None
    /\ ctl_call = [op |-> "new", arg |-> None, raised |-> FALSE, emitted |-> <<>>,
                   pre |-> [state |-> DefaultState, listener |-> None]]
    /\ notified = 0
    /\ mutations = 0
    /\ calls = 0
    /\ only_updates = TRUE
    /\ session = ImageSession
    /\ current_adjusted_image = None
    /\ canvas = None
    /\ window = MainWindowFlags
    /\ round_trip = NoRoundTrip
    /\ heap = MainWindowHeap

CallExportVariants ==
    /\ args.fn = "export_variants"
    /\ result = None
    /\ result' = Some(export_variants(args.config, args.base_path, args.variants,
                                      args.metadata_bytes, args.failing_save))
    /\ UNCHANGED <<args, original, current, undo_stack, redo_stack, call, pushed_original,
                   state, listener, ctl_call, notified, mutations, calls, only_updates,
                   session, current_adjusted_image, canvas, window, round_trip, heap>>

ExportNext == CallExportVariants

vars == <<original, current, undo_stack, redo_stack, call, pushed_original,
          state, listener, ctl_call, notified, mutations, calls, only_updates,
          session, current_adjusted_image, canvas, window, round_trip, args, result,
          heap>>

\* the ImageStore alone
SpecStore == StoreInit /\ [][StoreNext]_vars

\* the AdjustmentController alone
SpecController == ControllerInit /\ [][ControllerNext]_vars

\* the MainWindow with its ImageStore, AdjustmentController and ImageSession
Spec == WindowInit /\ [][WindowNext]_vars
SpecWindowCrop == WindowInit /\ [][WindowCropNext]_vars
SpecWindowRatio == WindowInit /\ [][WindowRatioNext]_vars
SpecWindowHeap == WindowInit /\ [][WindowHeapNext]_vars
SpecWindowCommit == WindowInit /\ [][WindowCommitNext]_vars
SpecWindowBalance == WindowInit /\ [][WindowBalanceNext]_vars

\* compute_crop_box alone
SpecCrop == CropInit /\ [][CropNext]_vars

\* build_variant_specs alone
SpecVariants == VariantsInit /\ [][VariantsNext]_vars
SpecSession == SessionInit /\ [][SessionNext]_vars
SpecAdjust == AdjustInit /\ [][AdjustNext]_vars
SpecGeometry == GeometryInit /\ [][GeometryNext]_vars

\* the ProcessingPipeline alone
SpecProcessing == ProcessingInit /\ [][ProcessingNext]_vars
SpecExport == ExportInit /\ [][ExportNext]_vars
SpecAutoBalance == AutoBalanceInit /\ [][AutoBalanceNext]_vars

(***************************************************************************)
(* Properties of the ImageStore                                            *)
(***************************************************************************)
\* C1: push_state(s) makes s the current snapshot, empties the redo stack
\* and puts the previous current snapshot, when there was one, on top of an
\* otherwise unchanged undo stack; a push after undos discards all redo
\* entries.
C1_PushState ==
    call.op = "push_state" =>
        /\ current = call.arg
        /\ redo_stack = <<>>
        /\ undo_stack = IF call.pre.current # None
                        THEN Append(call.pre.undo_stack, call.pre.current[1])
                        ELSE call.pre.undo_stack
        /\ original = call.pre.original

\* a push made after two undos, with history still below the cursor
C1_Witness ==
    /\ call.op = "push_state"
    /\ Len(call.pre.redo_stack) >= 2
    /\ call.pre.undo_stack # <<>>

\* C2: with a non-empty undo stack, undo() returns the top of the undo stack
\* and a following redo() restores the store exactly and returns the
\* snapshot that was current; with a non-empty redo stack, redo() followed
\* by undo() is the identity on the store.
C2_UndoRedoRoundTrip ==
    /\ (call.op = "undo" /\ call.pre.undo_stack # <<>>) =>
           /\ call.ret = Some(Last(call.pre.undo_stack))
           /\ redo(Store).store = call.pre
           /\ redo(Store).ret = call.pre.current
    /\ (call.op = "redo" /\ call.pre.redo_stack # <<>>) =>
           /\ call.ret = Some(Last(call.pre.redo_stack))
           /\ undo(Store).store = call.pre
           /\ undo(Store).ret = call.pre.current

\* an undo taken in the middle of the timeline
C2_Witness ==
    /\ call.op = "undo"
    /\ Len(call.pre.undo_stack) >= 2
    /\ call.pre.redo_stack # <<>>
    /\ redo(Store).store = call.pre

\* C4: undo() on an empty undo stack and redo() on an empty redo stack
\* return no snapshot and leave the store unchanged.
C4_EmptyStackNoOp ==
    /\ (call.op = "undo" /\ call.pre.undo_stack = <<>>) =>
           call.ret = None /\ Store = call.pre
    /\ (call.op = "redo" /\ call.pre.redo_stack = <<>>) =>
           call.ret = None /\ Store = call.pre

\* an undo with nothing to undo, while redo entries and a current exist
C4_Witness ==
    /\ call.op = "undo"
    /\ call.pre.undo_stack = <<>>
    /\ call.pre.redo_stack # <<>>
    /\ call.pre.current # None

\* C5: after load(path), and after reset_to_original() when an original
\* exists, current is the original snapshot and both stacks are empty;
\* reset_to_original() without an original returns nothing and changes
\* nothing.
C5_LoadAndReset ==
    /\ call.op = "load" =>
           /\ original = Some(ImageState(call.arg[1], "Original geladen", None))
           /\ current = original
           /\ undo_stack = <<>> /\ redo_stack = <<>>
    /\ (call.op = "reset_to_original" /\ call.pre.original # None) =>
           /\ original = call.pre.original
           /\ current = original
           /\ undo_stack = <<>> /\ redo_stack = <<>>
           /\ call.ret = original
    /\ (call.op = "reset_to_original" /\ call.pre.original = None) =>
           call.ret = None /\ Store = call.pre

\* a reset taken with entries on both stacks
C5_Witness ==
    /\ call.op = "reset_to_original"
    /\ call.pre.undo_stack # <<>>
    /\ call.pre.redo_stack # <<>>
    /\ current = original

\* C6: after a load, as long as no snapshot equal to the original is pushed,
\* has_unsaved_changes() is true exactly when the undo stack is non-empty,
\* which is exactly when current is not the original; the original is never
\* on the redo stack.
C6_UnsavedChanges ==
    (original # None /\ ~pushed_original) =>
        /\ has_unsaved_changes(Store) <=> (undo_stack # <<>>)
        /\ has_unsaved_changes(Store) <=> (current # original)
        /\ \A i \in 1..Len(redo_stack) : Some(redo_stack[i]) # original

\* undone all the way back to the original, redo entries remaining
C6_Witness ==
    /\ call.op = "undo"
    /\ original # None /\ ~pushed_original
    /\ current = original
    /\ Len(redo_stack) >= 2
    /\ ~has_unsaved_changes(Store)

(***************************************************************************)
(* Properties of the AdjustmentController                                  *)
(***************************************************************************)
\* the documented ranges: factors in [0.2, 3.0], integers in [-100, 100]
InRange(s) ==
    /\ \A f \in FactorFields : 20 <= s[f] /\ s[f] <= 300
    /\ \A f \in BalanceFields : -100 <= s[f] /\ s[f] <= 100

\* the value of [lo, hi] nearest to v
Nearest(v, lo, hi) == IF v < lo THEN lo ELSE IF v > hi THEN hi ELSE v

BalanceUpdates == {"update_temperature", "update_red_balance",
                   "update_green_balance", "update_blue_balance"}

\* the field the last update_* call names holds the nearest in-range value
FieldStored ==
    /\ (ctl_call.op = "update_factor" /\ ~ctl_call.raised) =>
           state[ctl_call.arg[1]] = Nearest(ctl_call.arg[2], 20, 300)
    /\ ctl_call.op \in BalanceUpdates =>
           state[ctl_call.arg[1]] = Nearest(ctl_call.arg[2], -100, 100)

\* C7: from a default controller, after any sequence of update_* calls,
\* every factor field is within [0.2, 3.0] and every integer field within
\* [-100, 100]; an out-of-range input is stored as the nearest bound and an
\* in-range input unchanged.
C7_UpdatesClamp ==
    /\ only_updates => InRange(state)
    /\ FieldStored

\* brightness 5.0 stored as 3.0 after temperature -500 was stored as -100
C7_Witness ==
    /\ only_updates
    /\ ctl_call.op = "update_factor"
    /\ ctl_call.arg = <<"brightness", 500>>
    /\ state.brightness = 300
    /\ state.temperature = -100

\* C8: after set_state with any constructed AdjustmentState the controller's
\* state has all factor fields in [0.2, 3.0] and all integer fields in
\* [-100, 100].
C8_ClampedByConstruction == ctl_call.op = "set_state" => InRange(state)

\* C9: every successful mutator call invokes the registered listener exactly
\* once, after the change, with the controller's new state; the number of
\* notifications equals the number of successful mutator calls made with a
\* listener registered; set_listener replaces the one listener slot; with no
\* listener the state is changed all the same.
C9_ListenerNotified ==
    /\ Len(ctl_call.emitted) <= 1
    /\ (ctl_call.op \in Mutators /\ ~ctl_call.raised /\ ctl_call.pre.listener # None) =>
           ctl_call.emitted = << [to |-> ctl_call.pre.listener[1], state |-> state] >>
    /\ (ctl_call.op \in Mutators /\ ~ctl_call.raised /\ ctl_call.pre.listener = None) =>
           ctl_call.emitted = <<>>
    /\ (ctl_call.op \in Mutators /\ ~ctl_call.raised) =>
           /\ ctl_call.op = "reset" => state = AdjustmentState(100, 100, 100, 100, 0, 0, 0, 0)
           /\ ctl_call.op = "set_state" => state = ctl_call.arg[1]
           /\ FieldStored
    /\ ctl_call.op = "set_listener" =>
           /\ listener = Some(ctl_call.arg[1])
           /\ state = ctl_call.pre.state
           /\ ctl_call.emitted = <<>>
    /\ notified = mutations

\* a replaced listener, and only it, is told about a change of state
C9_Witness ==
    /\ ctl_call.op = "update_temperature"
    /\ ctl_call.pre.listener = Some("other")
    /\ ctl_call.emitted = << [to |-> "other", state |-> state] >>
    /\ state # ctl_call.pre.state
    /\ notified >= 2

\* C10: update_factor with a field name other than brightness, contrast,
\* saturation or sharpness raises AdjustmentControllerError, leaves the
\* state unchanged and does not invoke the listener.
C10_InvalidFieldRaises ==
    ctl_call.op = "update_factor" =>
        /\ ctl_call.raised <=>
               ctl_call.arg[1] \notin {"brightness", "contrast", "saturation", "sharpness"}
        /\ ctl_call.raised =>
               /\ state = ctl_call.pre.state
               /\ listener = ctl_call.pre.listener
               /\ ctl_call.emitted = <<>>

\* a rejected call on a controller with a listener and a changed state
C10_Witness ==
    /\ ctl_call.op = "update_factor"
    /\ ctl_call.raised
    /\ ctl_call.arg[1] = "temperature"
    /\ ctl_call.pre.listener # None
    /\ ctl_call.pre.state # AdjustmentState(100, 100, 100, 100, 0, 0, 0, 0)

(***************************************************************************)
(* Properties of the MainWindow                                            *)
(***************************************************************************)
\* C3: after a commit, an undo followed by a redo leaves the controller's
\* AdjustmentState equal in all eight fields to its value before the undo,
\* and the displayed image equal to the one shown before the undo.
C3_UndoRedoRestoresState ==
    round_trip.phase = "redone" =>
        /\ state = round_trip.state
        /\ canvas = round_trip.image

(***************************************************************************)
(* compute_crop_box                                                        *)
(***************************************************************************)
\* the call of compute_crop_box has been made / has returned a box
CropCalled == args.fn = "compute_crop_box" /\ result # None
CropReturned == CropCalled /\ ~result[1].raised
Box == result[1].ret[1].box

\* integer n is a nearest integer to the length v (v in quarters)
NearestInteger(n, v) == 2 * (Unit * n - v) <= Unit /\ 2 * (v - Unit * n) <= Unit

\* the selection has positive extent and lies inside the image rectangle
Inside(sel, rect) ==
    /\ sel.w > 0 /\ sel.h > 0
    /\ sel.x >= rect.x /\ sel.x + sel.w <= rect.x + rect.w
    /\ sel.y >= rect.y /\ sel.y + sel.h <= rect.y + rect.h

\* the selection, a pixmap and scale 1
InsideAtScaleOne ==
    /\ CropCalled
    /\ Inside(args.selection_rect, args.image_rect)
    /\ ~isNull(args.pixmap)
    /\ args.current_scale = <<1, 1>>

\* C11 as stated: for a selection inside the image display rectangle at
\* scale 1 the box is the selection's (x, y, w, h), each rounded to a
\* nearest integer.
C11_BoxIsRoundedSelection ==
    InsideAtScaleOne =>
        /\ ~result[1].raised
        /\ NearestInteger(Box[1], args.selection_rect.x)
        /\ NearestInteger(Box[2], args.selection_rect.y)
        /\ NearestInteger(Box[3], args.selection_rect.w)
        /\ NearestInteger(Box[4], args.selection_rect.h)

\* C11 as amended: for a selection inside the image display rectangle at
\* scale 1, the display rectangle having the pixmap's size, left and top are
\* the selection's x and y taken from the display rectangle's origin and
\* rounded to a nearest integer, and width and height are the selection's
\* w and h rounded to a nearest integer but never less than 1.
C11_BoxIsRoundedOffset ==
    (/\ InsideAtScaleOne
     /\ args.image_rect.w = Unit * args.pixmap.width
     /\ args.image_rect.h = Unit * args.pixmap.height) =>
        /\ ~result[1].raised
        /\ NearestInteger(Box[1], args.selection_rect.x - args.image_rect.x)
        /\ NearestInteger(Box[2], args.selection_rect.y - args.image_rect.y)
        /\ NearestInteger(Box[3], args.selection_rect.w)
           \/ (Box[3] = 1 /\ 2 * args.selection_rect.w < Unit)
        /\ NearestInteger(Box[4], args.selection_rect.h)
           \/ (Box[4] = 1 /\ 2 * args.selection_rect.h < Unit)

\* a selection inside a display rectangle that is off the origin, whose
\* offset and extent are not whole units, gave a box
C11_Witness ==
    /\ InsideAtScaleOne
    /\ args.image_rect = QRectF(1, 2, 8, 8)
    /\ args.pixmap = QPixmap(2, 2)
    /\ args.selection_rect = QRectF(4, 3, 3, 1)
    /\ Box = <<1, 0, 1, 1>>

\* the extent of the overlap of two intervals given by origin and (signed)
\* extent
Overlap(x1, w1, x2, w2) ==
    Min(Max(x1, x1 + w1), Max(x2, x2 + w2)) - Max(Min(x1, x1 + w1), Min(x2, x2 + w2))

\* the inputs on which C12 says compute_crop_box fails
C12_MustFail ==
    \/ args.image_rect.w <= 0 \/ args.image_rect.h <= 0
    \/ isNull(args.pixmap)
    \/ args.current_scale[1] <= 0
    \/ Overlap(args.selection_rect.x, args.selection_rect.w,
               args.image_rect.x, args.image_rect.w) <= 0
    \/ Overlap(args.selection_rect.y, args.selection_rect.h,
               args.image_rect.y, args.image_rect.h) <= 0

\* C12: compute_crop_box raises CropServiceError, returning no box, exactly
\* when the image rectangle has no positive extent, the pixmap is null, the
\* scale is not positive or the selection and the image rectangle overlap in
\* no positive width or height; on every other input it returns a box.
C12_FailsExactlyOnBadInput ==
    CropCalled =>
        /\ result[1].raised <=> C12_MustFail
        /\ result[1].raised => result[1].ret = None
        /\ ~result[1].raised => result[1].ret # None

\* a selection wholly outside a valid image rectangle was rejected, with a
\* pixmap and a positive scale
C12_Witness ==
    /\ CropCalled
    /\ result[1].raised
    /\ args.image_rect = QRectF(0, 0, 4, 4)
    /\ args.selection_rect = QRectF(4, 4, 2, 2)
    /\ ~isNull(args.pixmap)
    /\ args.current_scale = <<1, 1>>

\* C13: every returned box has left >= 0, top >= 0, width >= 1, height >= 1
\* and ends inside the pixmap: left + width <= pixmap width and
\* top + height <= pixmap height.
C13_BoxInsidePixmap ==
    CropReturned =>
        /\ Box[1] >= 0 /\ Box[2] >= 0 /\ Box[3] >= 1 /\ Box[4] >= 1
        /\ Box[1] + Box[3] <= args.pixmap.width
        /\ Box[2] + Box[4] <= args.pixmap.height

(***************************************************************************)
(* build_variant_specs                                                     *)
(***************************************************************************)
VariantsCalled == args.fn = "build_variant_specs" /\ result # None
Specs == result[1].ret[1].specs
Suffix == result[1].ret[1].suffix

\* a ratio is selected: its value is present and positive
RatioSelected == args.ratio.value # None /\ args.ratio.value[1][1] > 0
\* a non-empty label is selected along with the ratio
LabelSelected == RatioSelected /\ args.ratio.label # None /\ args.ratio.label[1] # <<>>
\* the label has a rule list of its own that is not empty
Configured(label) == label \in DOMAIN args.variant_rules /\ args.variant_rules[label] # <<>>

\* the label with every ":" turned into "x"
ColonToX(label) == [i \in 1..Len(label) |-> IF label[i] = ":" THEN "x" ELSE label[i]]
\* the label has no character that the suffix drops or spells out
Plain(label) == \A i \in 1..Len(label) : label[i] \notin {" ", "?"}

\* every rule of the list gives both sizes as integers
AllLiteral(rules) ==
    \A i \in 1..Len(rules) : rules[i].width.kind = "int" /\ rules[i].height.kind = "int"

\* C15: when the selected label has its own rule list of literal sizes, the
\* specs are exactly those rules' (prefix, width, height) in order, whatever
\* the image, and the suffix is the label with ":" replaced by "x"; "16:9"
\* on 4000x3000 gives ("__",3840,2160), ("_",1920,1080), ("",1280,720) and
\* suffix "16x9".
C15_LiteralRulesAsConfigured ==
    (/\ VariantsCalled /\ LabelSelected
     /\ Configured(args.ratio.label[1])
     /\ AllLiteral(args.variant_rules[args.ratio.label[1]])
     /\ Plain(args.ratio.label[1])) =>
        LET rules == args.variant_rules[args.ratio.label[1]] IN
        /\ ~result[1].raised
        /\ Specs = [i \in 1..Len(rules) |->
                       <<rules[i].prefix, rules[i].width.value, rules[i].height.value>>]
        /\ Suffix = ColonToX(args.ratio.label[1])
        /\ (args.variant_rules = DEFAULT_SETTINGS /\ args.ratio.label[1] = Label_16_9) =>
              /\ Specs = << <<"__", 3840, 2160>>, <<"_", 1920, 1080>>, <<"", 1280, 720>> >>
              /\ Suffix = <<"1", "6", "x", "9">>

\* "16:9" was selected for a 4000x3000 image under the built-in rules
C15_Witness ==
    /\ VariantsCalled
    /\ args.variant_rules = DEFAULT_SETTINGS
    /\ args.ratio.label = Some(Label_16_9)
    /\ args.image = [width |-> 4000, height |-> 3000]
    /\ Specs[1] = <<"__", 3840, 2160>>

\* the spec was made from the rule: same prefix, and each size that the rule
\* gives as an integer or as "original" is that integer or the image's size
MadeFrom(spec, rule) ==
    /\ spec[1] = rule.prefix
    /\ rule.width.kind = "int" => spec[2] = rule.width.value
    /\ rule.height.kind = "int" => spec[3] = rule.height.value
    /\ (rule.width.kind = "str" /\ rule.width.text = "original") => spec[2] = args.image.width
    /\ (rule.height.kind = "str" /\ rule.height.text = "original") => spec[3] = args.image.height

AllMadeFrom(rules) ==
    /\ Len(Specs) = Len(rules)
    /\ \A i \in 1..Len(rules) : MadeFrom(Specs[i], rules[i])

\* C16: the selected label's rules are used when it has a non-empty list,
\* otherwise the "default" rules, and ImageSessionError is raised (no specs)
\* when neither exists; after the fallback the suffix still comes from the
\* selected label: "3:2" on 1500x1000 gives ("__",1500,1000), ("_",960,640),
\* ("",480,320) and suffix "3x2".
C16_RulesWithFallback ==
    (VariantsCalled /\ LabelSelected) =>
        LET label == args.ratio.label[1] IN
        /\ Configured(label) =>
              ~result[1].raised /\ AllMadeFrom(args.variant_rules[label])
        /\ (~Configured(label) /\ Configured(Label_default)) =>
              /\ ~result[1].raised
              /\ AllMadeFrom(args.variant_rules[Label_default])
              /\ Plain(label) => Suffix = ColonToX(label)
              /\ label = Label_custom => Suffix = <<"c", "u", "s", "t", "o", "m">>
              /\ label = Label_spaced => Suffix = <<"5", "x", "4">>
        /\ (~Configured(label) /\ ~Configured(Label_default)) =>
              result[1].raised /\ result[1].ret = None
        /\ (/\ args.variant_rules = DEFAULT_SETTINGS /\ label = Label_3_2
            /\ args.image = [width |-> 1500, height |-> 1000]) =>
              /\ Specs = << <<"__", 1500, 1000>>, <<"_", 960, 640>>, <<"", 480, 320>> >>
              /\ Suffix = <<"3", "x", "2">>

\* "3:2", which the built-in rules do not list, was selected for a
\* 1500x1000 image and the default rules were used
C16_Witness ==
    /\ VariantsCalled
    /\ args.variant_rules = DEFAULT_SETTINGS
    /\ args.ratio.label = Some(Label_3_2) /\ args.ratio.value = Some(<<3, 2>>)
    /\ args.image = [width |-> 1500, height |-> 1000]
    /\ ~result[1].raised
    /\ Specs[2] = <<"_", 960, 640>>

\* the reduced fractions n/d with d <= MaxDenominator that are as close to
\* width/height as any fraction with such a denominator
ClosestFractions(image) ==
    LET candidates ==
            {<<(image.width * d) \div image.height + e, d>> : d \in 1..MaxDenominator, e \in {0, 1}}
        dist(c) == Abs(c[1] * image.height - image.width * c[2])
        closest == {c \in candidates :
                       \A c2 \in candidates : dist(c) * c2[2] <= dist(c2) * c[2]}
    IN {c \in closest : gcd(c[1], c[2]) = 1}

\* n is num/den rounded to a nearest integer, and 1 where that is below 1
FlooredNearest(n, num, den) ==
    \/ n >= 1 /\ 2 * Abs(n * den - num) <= den
    \/ n = 1 /\ 2 * num < den

\* C17: with no ratio selected (value absent or <= 0) the label is n:d for
\* the fraction n/d with denominator <= 100 closest to width/height, so the
\* suffix is "nxd" (1024x768 gives "4x3"), and "auto" sizes are resolved
\* with the image's exact width/height ratio (the default rules give
\* ("__",1024,768), ("_",960,720), ("",480,360)).
C17_RatioDerivedFromImage ==
    (VariantsCalled /\ ~RatioSelected /\ ~result[1].raised) =>
        /\ \E c \in ClosestFractions(args.image) :
              Suffix = Decimal(c[1]) \o <<"x">> \o Decimal(c[2])
        /\ (Fraction(args.image.width, args.image.height)[2] <= MaxDenominator) =>
              Suffix = Decimal(Fraction(args.image.width, args.image.height)[1]) \o <<"x">>
                       \o Decimal(Fraction(args.image.width, args.image.height)[2])
        /\ (Len(Specs) = 3 /\ Specs[2][1] = "_" /\ Specs[2][2] = 960) =>
              FlooredNearest(Specs[2][3], 960 * args.image.height, args.image.width)
        /\ (args.variant_rules = DEFAULT_SETTINGS
            /\ args.image = [width |-> 1024, height |-> 768]) =>
              /\ Specs = << <<"__", 1024, 768>>, <<"_", 960, 720>>, <<"", 480, 360>> >>
              /\ Suffix = <<"4", "x", "3">>

\* no ratio was selected for a 1920x1081 image, whose reduced aspect ratio
\* has a denominator above 100, and the label 119:67 was derived
C17_Witness ==
    /\ VariantsCalled
    /\ args.ratio = RatioSelection
    /\ args.image = [width |-> 1920, height |-> 1081]
    /\ ~result[1].raised
    /\ Suffix = <<"1", "1", "9", "x", "6", "7">>

\* C18: every (prefix, width, height) returned has width >= 1 and
\* height >= 1, whatever the rules, the image size and the ratio selection.
C18_SizesAtLeastOne ==
    (VariantsCalled /\ ~result[1].raised) =>
        \A i \in 1..Len(Specs) : Specs[i][2] >= 1 /\ Specs[i][3] >= 1

\* the ratio in effect: the selected value, or the image's width / height
ActiveRatio ==
    IF RatioSelected THEN args.ratio.value[1] ELSE <<args.image.width, args.image.height>>

\* what a rule says about one axis
KindOf(value) == IF value.kind = "int" THEN "literal" ELSE lower(value.text)
\* the size given by a rule's value that is not "auto"
Given(value, image_size) == IF KindOf(value) = "original" THEN image_size ELSE value.value

\* the rule's sizes are resolved as C19 says
ResolvedAsStated(spec, rule) ==
    LET wk == KindOf(rule.width)
        hk == KindOf(rule.height)
    IN /\ (wk # "auto" /\ hk # "auto") =>
              /\ spec[2] = Given(rule.width, args.image.width)
              /\ spec[3] = Given(rule.height, args.image.height)
       /\ (wk = "auto" /\ hk # "auto") =>
              /\ spec[3] = Given(rule.height, args.image.height)
              /\ FlooredNearest(spec[2], spec[3] * ActiveRatio[1], ActiveRatio[2])
       /\ (wk # "auto" /\ hk = "auto") =>
              /\ spec[2] = Given(rule.width, args.image.width)
              /\ FlooredNearest(spec[3], spec[2] * ActiveRatio[2], ActiveRatio[1])
       /\ (wk = "auto" /\ hk = "auto") =>
              spec[2] = args.image.width /\ spec[3] = args.image.height

\* C19: the returned specs resolve some configured rule list rule by rule:
\* "original" is the image's size and an integer itself; with one axis
\* "auto" it is max(1, round(height * ratio)) or max(1, round(width / ratio))
\* of the other axis; with both "auto" the image's own (width, height).
C19_DimensionResolution ==
    (VariantsCalled /\ ~result[1].raised) =>
        \E label \in DOMAIN args.variant_rules :
            LET rules == args.variant_rules[label] IN
            /\ Len(rules) = Len(Specs)
            /\ \A i \in 1..Len(rules) :
                  Specs[i][1] = rules[i].prefix /\ ResolvedAsStated(Specs[i], rules[i])

\* rules with "auto" on either axis and on both were resolved for a
\* 1x3000 image with no ratio selected, the computed width being floored
C19_Witness ==
    /\ VariantsCalled
    /\ ~result[1].raised
    /\ args.ratio = RatioSelection
    /\ args.image = [width |-> 1, height |-> 3000]
    /\ Len(Specs) = 5
    /\ Specs[1] = <<"a", 1, 600>>
    /\ Specs[2] = <<"b", 1, 3000>>
    /\ Specs[5] = <<"e", 1, 3000>>

(***************************************************************************)
(* ProcessingPipeline                                                      *)
(***************************************************************************)
\* a width that is not positive is among the widths asked for
BadWidthAsked ==
    \/ args.fn = "resize_with_quality" /\ args.target_width <= 0
    \/ /\ args.fn = "generate_variants"
       /\ \E i \in 1..Len(args.target_widths) : args.target_widths[i] <= 0

\* C20: resize_with_quality with target_width <= 0 raises ProcessingError
\* before any processing and leaves the source image as it was, and
\* generate_variants given a list with such a width fails the same way and
\* returns no list of variants.
C20_NonPositiveWidthRejected ==
    (args.fn \in {"resize_with_quality", "generate_variants"} /\ result # None) =>
        /\ BadWidthAsked =>
              /\ result[1].raised
              /\ result[1].ret = None
              /\ result[1].source = args.image
        /\ ~BadWidthAsked => ~result[1].raised /\ result[1].ret # None

\* generate_variants was given a good width followed by width 0 and failed
C20_Witness ==
    /\ args.fn = "generate_variants"
    /\ result # None
    /\ args.target_widths = <<480, 0>>
    /\ result[1].raised

\* the call returned
ProcessingReturned ==
    /\ args.fn \in {"resize_with_quality", "generate_variants"}
    /\ result # None
    /\ ~result[1].raised

\* C21: for target_width > 0 and no target_height, resize_with_quality
\* returns an image of width target_width and of height
\* max(1, round(target_width * sourceHeight / sourceWidth)); generate_variants
\* returns one variant per requested width, in request order, each with the
\* requested width.
C21_WidthExactHeightFromAspect ==
    ProcessingReturned =>
        /\ (args.fn = "resize_with_quality" /\ args.target_height = None) =>
              /\ result[1].ret[1].width = args.target_width
              /\ FlooredNearest(result[1].ret[1].height,
                                args.target_width * args.image.height, args.image.width)
        /\ args.fn = "generate_variants" =>
              /\ Len(result[1].ret[1]) = Len(args.target_widths)
              /\ \A i \in 1..Len(args.target_widths) :
                    /\ result[1].ret[1][i].width = args.target_widths[i]
                    /\ result[1].ret[1][i].image.width = args.target_widths[i]
                    /\ FlooredNearest(result[1].ret[1][i].height,
                                      args.target_widths[i] * args.image.height, args.image.width)

\* two variants of a 3x5 image, 480 and 1 wide: heights 800 and 2
C21_Witness ==
    /\ ProcessingReturned
    /\ args.fn = "generate_variants"
    /\ args.image = Image(3, 5)
    /\ args.target_widths = <<480, 1>>
    /\ result[1].ret[1][1].height = 800
    /\ result[1].ret[1][2].height = 2

(***************************************************************************)
(* ExportService                                                           *)
(***************************************************************************)
\* export_variants has run
ExportCalled == args.fn = "export_variants" /\ result # None

\* C22: every failure of export_variants is an ExportServiceError: an empty
\* variant list fails with it before any file is written, and a failure
\* while writing a variant's file surfaces as ExportServiceError too.
C22_FailuresAreExportServiceError ==
    ExportCalled =>
        /\ result[1].raised => result[1].exception = Some("ExportServiceError")
        /\ args.variants = <<>> => result[1].raised /\ result[1].written = <<>>

\* the file extension of an export format
ExtensionOf(format) ==
    CASE format = "WEBP" -> <<"w", "e", "b", "p">>
      [] format = "PNG" -> <<"p", "n", "g">>
      [] format = "JPEG" -> <<"j", "p", "g">>

\* the name without its extension: what precedes the last "." where
\* something without a "." follows it, the name itself otherwise
StemOf(name) ==
    LET cuts == {i \in 2..Len(name) - 1 :
                    name[i] = "." /\ \A j \in i + 1..Len(name) : name[j] # "."}
    IN IF cuts = {} THEN name ELSE SubSeq(name, 1, (CHOOSE i \in cuts : TRUE) - 1)

\* {prefix}{stem}_{width}x{height}_{ratioSuffix}.{ext}
ConventionalName(base_path, variant, format) ==
    variant.prefix \o StemOf(base_path.name) \o <<"_">> \o Decimal(variant.resolution[1])
        \o <<"x">> \o Decimal(variant.resolution[2]) \o <<"_">> \o variant.ratio_suffix
        \o <<".">> \o ExtensionOf(format)

\* C23: for a non-empty variant list export_variants writes and returns one
\* path per variant, in input order, each in the base path's directory and
\* named {prefix}{stem}_{width}x{height}_{ratioSuffix}.{ext}, ext being the
\* extension of the configured export format.
C23_PathsFollowConvention ==
    (ExportCalled /\ ~result[1].raised) =>
        /\ Len(result[1].ret[1]) = Len(args.variants)
        /\ Len(result[1].written) = Len(args.variants)
        /\ \A i \in 1..Len(args.variants) :
              /\ result[1].ret[1][i].parent = args.base_path.parent
              /\ result[1].ret[1][i].name =
                     ConventionalName(args.base_path, args.variants[i], args.config.format)
              /\ result[1].written[i].path = result[1].ret[1][i]

(***************************************************************************)
(* The auto-balance heuristics                                             *)
(***************************************************************************)
\* the heuristic named has returned
Calculated(fn) == args.fn = fn /\ result # None

\* the three channel medians of the image (in hundredths) and their sum
Medians == [c \in 1..3 |-> median(channel(args.arr, c))]
MedianSum == Medians[1] + Medians[2] + Medians[3]
\* the balances returned, by channel
Balances == <<result[1].red_balance, result[1].green_balance, result[1].blue_balance>>

\* the average of the medians is above 10
AverageAboveTen == MedianSum > 3 * 1000
\* dev_c = (avg - median_c) / avg * 100 is above 1.5 in magnitude
Deviates(c) == 200 * Abs(MedianSum - 3 * Medians[c]) > 3 * MedianSum

\* b is clamp(dev_c * 0.85, -45, 45) as an integer: the limit where the
\* product is beyond it, otherwise the product without its fraction
ClampedCorrection(b, c) ==
    LET n == 85 * (MedianSum - 3 * Medians[c])
    IN /\ n >= 45 * MedianSum => b = 45
       /\ n <= -45 * MedianSum => b = -45
       /\ Abs(n) < 45 * MedianSum =>
             /\ Abs(b) * MedianSum <= Abs(n)
             /\ Abs(n) < (Abs(b) + 1) * MedianSum
             /\ b * n >= 0

\* the factors and the temperature are left alone, and each balance is the
\* clamped correction or 0
ColorOnlyAsComputed ==
    /\ result[1].brightness = 100 /\ result[1].contrast = 100
    /\ result[1].saturation = 100 /\ result[1].sharpness = 100
    /\ result[1].temperature = 0
    /\ \A c \in 1..3 :
          /\ (Deviates(c) /\ AverageAboveTen) => ClampedCorrection(Balances[c], c)
          /\ ~(Deviates(c) /\ AverageAboveTen) => Balances[c] = 0
          /\ Balances[c] \in -45..45

\* C25 as stated: the colour-only heuristic leaves the factors at 1.0 and
\* the temperature at 0, a channel's balance is clamp(dev_c * 0.85, -45, 45)
\* as an integer when |dev_c| > 1.5 and avg > 10 and 0 otherwise, so every
\* channel brighter than the average gets a strictly negative balance and
\* every darker one a strictly positive balance.
C25_BrighterNegativeDarkerPositive ==
    Calculated("calculate_auto_balance_color_only") =>
        /\ ColorOnlyAsComputed
        /\ \A c \in 1..3 :
              /\ 3 * Medians[c] > MedianSum => Balances[c] < 0
              /\ 3 * Medians[c] < MedianSum => Balances[c] > 0

\* C25: the colour-only heuristic leaves the factors at 1.0 and the
\* temperature at 0, a channel's balance is clamp(dev_c * 0.85, -45, 45) as
\* an integer when |dev_c| > 1.5 and avg > 10 and 0 otherwise, so a channel
\* that deviates by more than 1.5 percent of an average above 10 gets a
\* strictly negative balance when brighter than the average and a strictly
\* positive one when darker, and every balance lies in [-45, 45].
C25_DeviatingChannelsCorrected ==
    Calculated("calculate_auto_balance_color_only") =>
        /\ ColorOnlyAsComputed
        /\ \A c \in 1..3 :
              (Deviates(c) /\ AverageAboveTen) =>
                  /\ 3 * Medians[c] > MedianSum => Balances[c] < 0
                  /\ 3 * Medians[c] < MedianSum => Balances[c] > 0

\* medians R 150, G 120, B 90: red below 0, green 0, blue above 0
C25_Witness ==
    /\ Calculated("calculate_auto_balance_color_only")
    /\ args.arr = << <<150, 120, 90>> >>
    /\ Balances = <<-21, 0, 21>>

\* the 5th and 95th percentile of all channel values, in hundredths
P5 == percentile(flatten(args.arr), 5)
P95 == percentile(flatten(args.arr), 95)

\* v (in hundredths) is numerator / denominator to two decimals
ToTwoDecimals(v, numerator, denominator) ==
    2 * Abs(v * denominator - 100 * numerator) <= denominator

\* v is min(numerator / denominator, cap) to two decimals; the quotient by
\* 0 is beyond any cap
IsMinOf(v, numerator, denominator, cap) ==
    IF 100 * numerator >= cap * denominator THEN v = cap
    ELSE ToTwoDecimals(v, numerator, denominator)

\* v is max(numerator / denominator, floor) to two decimals
IsMaxOf(v, numerator, denominator, floor) ==
    IF 100 * numerator <= floor * denominator THEN v = floor
    ELSE ToTwoDecimals(v, numerator, denominator)

P2 == percentile(flatten(args.arr), 2)
P98 == percentile(flatten(args.arr), 98)
\* the span covers under 85 percent of 0..255
UnderUsed == 100 * (P98 - P2) < 85 * 25500

\* v is clamp(numerator / denominator, low, high) to two decimals
IsClampOf(v, numerator, denominator, low, high) ==
    IF 100 * numerator >= high * denominator THEN v = high
    ELSE IF 100 * numerator <= low * denominator THEN v = low
    ELSE ToTwoDecimals(v, numerator, denominator)

\* C27 as stated: whenever the 2nd-to-98th percentile span covers under 85%
\* of 0..255 the Photoshop-style heuristic sets contrast =
\* clamp(255/span, 1.0, 1.5) and brightness = clamp(127.5/midpoint, 0.75,
\* 1.35), for every span below the threshold, however small, and leaves
\* both at 1.0 when the span covers 85% or more.
C27_StretchForEverySpan ==
    Calculated("calculate_auto_balance_photoshop_style") =>
        IF UnderUsed
        THEN /\ IsClampOf(result[1].contrast, 25500, P98 - P2, 100, 150)
             /\ IsClampOf(result[1].brightness, 2 * 12750, P2 + P98, 75, 135)
        ELSE result[1].contrast = 100 /\ result[1].brightness = 100

\* C27: whenever the 2nd-to-98th percentile span is above 10 and covers
\* under 85% of 0..255 the Photoshop-style heuristic sets contrast =
\* clamp(255/span, 1.0, 1.5) and brightness = clamp(127.5/midpoint, 0.75,
\* 1.35) when the midpoint is above 10 and 1.0 otherwise (values to two
\* decimals, as returned); it leaves both at 1.0 when the span covers 85% or
\* more or is 10 or less.
C27_StretchAboveTen ==
    Calculated("calculate_auto_balance_photoshop_style") =>
        IF UnderUsed /\ P98 - P2 > 1000
        THEN /\ IsClampOf(result[1].contrast, 25500, P98 - P2, 100, 150)
             /\ IF P2 + P98 > 2 * 1000
                THEN IsClampOf(result[1].brightness, 2 * 12750, P2 + P98, 75, 135)
                ELSE result[1].brightness = 100
        ELSE result[1].contrast = 100 /\ result[1].brightness = 100

\* a span of 1.92 leaves both factors at 1.0
C27_Witness ==
    /\ Calculated("calculate_auto_balance_photoshop_style")
    /\ args.arr = << <<120, 122, 122>> >>
    /\ P98 - P2 = 192
    /\ result[1].contrast = 100
    /\ result[1].brightness = 100

(***************************************************************************)
(* Claims about ImageSession                                               *)
(***************************************************************************)
\* the last session call, and whether it raised ImageSessionError
SessionCalled(fn) == args.fn = fn /\ result # None
SessionFailed(fn) == SessionCalled(fn) /\ result[1].raised

\* C28: a load that cannot decode its file raises and leaves path,
\* original_image, base_image and ratio as they were; current_base() and
\* apply_adjustments() raise when there is no base image,
\* reset_base_to_original() raises when there is no original image, so all
\* three raise on a session with nothing loaded, and a call that raised
\* changed no field of the session
C28_FailuresLeaveSessionUnchanged ==
    /\ SessionFailed("load") => session = args.pre
    /\ \A fn \in {"current_base", "apply_adjustments"} :
          SessionCalled(fn) => (result[1].raised <=> args.pre.base_image = None)
    /\ SessionCalled("reset_base_to_original") =>
          (result[1].raised <=> args.pre.original_image = None)
    /\ \A fn \in {"current_base", "apply_adjustments", "reset_base_to_original"} :
          SessionFailed(fn) => session = args.pre

\* a load failed on a session that held a file, a replaced base image and a
\* ratio selection
C28_Witness ==
    /\ SessionFailed("load")
    /\ session.path # None
    /\ session.base_image # session.original_image
    /\ session.ratio # RatioSelection

\* C29: original_image changes only in a load that succeeds; every other
\* method leaves it as it was; a reset_base_to_original() that returns
\* leaves base_image equal to original_image, and it returns whenever an
\* image was loaded; a load that succeeds leaves the ratio selection empty
C29_OriginalChangedOnlyByLoad ==
    [][/\ session'.original_image # session.original_image =>
            args'.fn = "load" /\ ~result'[1].raised
       /\ args'.fn = "reset_base_to_original" /\ session.original_image # None =>
            /\ ~result'[1].raised
            /\ session'.base_image = session'.original_image
       /\ args'.fn = "load" /\ ~result'[1].raised => session'.ratio = RatioSelection]_vars

\* reset_base_to_original() has restored a base image that set_base_image
\* had replaced
C29_Witness ==
    /\ SessionCalled("reset_base_to_original")
    /\ ~result[1].raised
    /\ args.pre.base_image # args.pre.original_image
    /\ session.base_image = session.original_image
    /\ session.original_image # None

(***************************************************************************)
(* Claims about CropGeometry payloads                                      *)
(***************************************************************************)
\* a payload that is absent, empty, or whose selection or image_bounds
\* (an absent one counting as empty) does not have four entries
Malformed(data) ==
    \/ data = None
    \/ DOMAIN data[1] = {}
    \/ Len(Get(data[1], "selection", list(<<>>))[2]) # 4
    \/ Len(Get(data[1], "image_bounds", list(<<>>))[2]) # 4

\* C30: from_payload(to_payload(g)) is a geometry whose selection,
\* image_bounds and scale equal those of g, and from_payload of a payload
\* that is absent, empty, or has a selection or image_bounds without exactly
\* four entries is no geometry
C30_PayloadRoundTrip ==
    /\ args.fn = "to_payload" /\ result # None =>
          /\ result[1] # None
          /\ result[1][1].selection = args.g.selection
          /\ result[1][1].image_bounds = args.g.image_bounds
          /\ result[1][1].scale = args.g.scale
    /\ args.fn = "from_payload" /\ result # None =>
          (result[1] = None <=> Malformed(args.data))

\* a geometry whose three fields differ from one another and from the
\* defaults has made the round trip
C30_Witness ==
    /\ args.fn = "to_payload"
    /\ result # None
    /\ args.g.selection # args.g.image_bounds
    /\ args.g.scale # <<1, 1>>
    /\ result[1] = Some(args.g)

(***************************************************************************)
(* Claims about CropGeometry.has_whitespace                                *)
(***************************************************************************)
\* the extent along one axis that a selection starting at s with extent e
\* shares with bounds starting at b with extent f
SharedExtent(start, extent, bstart, bextent) ==
    IF Min(start + extent, bstart + bextent) > Max(start, bstart)
    THEN Min(start + extent, bstart + bextent) - Max(start, bstart)
    ELSE 0

\* the selection lies fully inside the image bounds
SelectionInside(g) ==
    /\ g.selection[3] >= 0 /\ g.selection[4] >= 0
    /\ g.selection[1] >= g.image_bounds[1]
    /\ g.selection[2] >= g.image_bounds[2]
    /\ g.selection[1] + g.selection[3] <= g.image_bounds[1] + g.image_bounds[3]
    /\ g.selection[2] + g.selection[4] <= g.image_bounds[2] + g.image_bounds[4]

\* C31: has_whitespace() is true exactly when the part of the selection
\* inside the image bounds is narrower than the selection by more than 0.25
\* units or shorter than it by more than 0.25 units; it is false for a
\* selection fully inside the bounds and true for (0,0,200,150) against
\* (20,20,160,120)
C31_WhitespaceBeyondEpsilon ==
    args.fn = "has_whitespace" /\ result # None =>
        LET sel == args.g.selection
            bounds == args.g.image_bounds
        IN /\ result[1] <=>
                 \/ sel[3] - SharedExtent(sel[1], sel[3], bounds[1], bounds[3]) > Epsilon
                 \/ sel[4] - SharedExtent(sel[2], sel[4], bounds[2], bounds[4]) > Epsilon
           /\ SelectionInside(args.g) => ~result[1]
           /\ sel = <<0, 0, 200 * Unit, 150 * Unit>>
                /\ bounds = <<20 * Unit, 20 * Unit, 160 * Unit, 120 * Unit>> => result[1]

\* the selection of the test against the bounds of the test
C31_Witness ==
    /\ args.fn = "has_whitespace"
    /\ args.g.selection = <<0, 0, 800, 600>>
    /\ args.g.image_bounds = <<80, 80, 640, 480>>
    /\ result = Some(TRUE)

(***************************************************************************)
(* Claims about undo and redo in the window                                *)
(***************************************************************************)
\* what is recorded for a snapshot: for the snapshot made by load, the
\* default state and the decoded file as base and as displayed image; for a
\* committed one, the payload's adjustment state, base image and image
RecordedState(snapshot) ==
    IF snapshot.payload = None THEN DefaultState
    ELSE [DefaultState EXCEPT !.brightness = snapshot.payload[1].adjustment_state.brightness,
                              !.contrast = snapshot.payload[1].adjustment_state.contrast,
                              !.saturation = snapshot.payload[1].adjustment_state.saturation,
                              !.sharpness = snapshot.payload[1].adjustment_state.sharpness,
                              !.temperature = snapshot.payload[1].adjustment_state.temperature]
RecordedBase(snapshot) ==
    IF snapshot.payload = None THEN Some(Decoded(snapshot.path))
    ELSE snapshot.payload[1].base_image
RecordedImage(snapshot) ==
    IF snapshot.payload = None THEN Some(Decoded(snapshot.path))
    ELSE snapshot.payload[1].current_image

\* the five recorded fields of an adjustment state
RecordedFields(st) == [st EXCEPT !.red_balance = 0, !.green_balance = 0, !.blue_balance = 0]

\* C32: an undo or redo that moves the store's current snapshot leaves the
\* controller's adjustment state, the session's base image and the
\* displayed image as recorded for the snapshot now current, the post-load
\* original included, and "nothing to undo" or "nothing to redo" is shown
\* only when the store did not move
C32_UndoRedoShowsCurrentSnapshot ==
    [][/\ args'.fn \in {"undo_change", "redo_change"} /\ current' # current =>
            /\ RecordedFields(state') = RecordedState(current'[1])
            /\ session'.base_image = RecordedBase(current'[1])
            /\ canvas' = RecordedImage(current'[1])
       /\ args'.fn = "undo_change" /\ shows_nothing_to_undo(Window) => current' = current
       /\ args'.fn = "redo_change" /\ shows_nothing_to_redo(Window) => current' = current]_vars

(***************************************************************************)
(* Claims about what is pushed to the history                              *)
(***************************************************************************)
SliderChanges == {"on_factor_slider_change", "temperature_changed", "red_balance_changed"}
CommitEvents == {"commit_slider_state", "reset_sliders_clicked", "auto_color_balance"}

\* the step pushed one snapshot / left the history store as it was
PushedOne ==
    current # None /\ undo_stack' = Append(undo_stack, current[1]) /\ redo_stack' = <<>>
HistoryUntouched == UNCHANGED <<original, current, undo_stack, redo_stack>>

\* C33: a slider value change (with the re-render it triggers) leaves the
\* store's current snapshot and both stacks unchanged; a slider release, a
\* reset of the sliders, an auto-balance click and an applied crop each
\* push one snapshot or none, and exactly one when an image is loaded and a
\* rendered image exists
C33_OnlyCommitsPush ==
    [][/\ args'.fn \in SliderChanges => HistoryUntouched
       /\ args'.fn \in CommitEvents =>
            /\ PushedOne \/ HistoryUntouched
            /\ has_image(session') /\ current_adjusted_image' # None => PushedOne
       /\ args'.fn = "apply_crop" =>
            /\ PushedOne \/ HistoryUntouched
            /\ result'[1].error = None => PushedOne]_vars

\* a slider has been moved after a commit: the controller's state is no
\* longer the one recorded in the store's current snapshot
C33_Witness ==
    /\ args.fn \in SliderChanges
    /\ undo_stack # <<>>
    /\ current[1].payload # None
    /\ current[1].payload[1].adjustment_state.brightness # state.brightness

(***************************************************************************)
(* Claims about the timeline of the history store                          *)
(***************************************************************************)
Reversed(seq) == [i \in 1..Len(seq) |-> seq[Len(seq) + 1 - i]]

\* the undo stack, then the current snapshot, then the redo stack from its
\* top to its bottom
Timeline(st) == st.undo_stack \o st.current \o Reversed(st.redo_stack)

\* C38: every undo and every redo leaves the sequence undo_stack, current,
\* reversed redo_stack as it was, and push_state leaves it as the part up to
\* and including the former current followed by the new snapshot
C38_TimelineConserved ==
    /\ call.op \in {"undo", "redo"} => Timeline(Store) = Timeline(call.pre)
    /\ call.op = "push_state" =>
          Timeline(Store) = call.pre.undo_stack \o call.pre.current \o call.arg

\* an undo has moved the cursor with snapshots on both sides of it
C38_Witness ==
    /\ call.op = "undo"
    /\ call.ret # None
    /\ undo_stack # <<>>
    /\ Len(redo_stack) > 1

(***************************************************************************)
(* Claims about apply_adjustments                                          *)
(***************************************************************************)
StageOrder == <<"brightness", "contrast", "saturation", "sharpness", "temperature", "rgb_balance">>

\* the stage is not neutral in the state
NonNeutral(stage, st) ==
    CASE stage = "temperature" -> st.temperature # 0
      [] stage = "rgb_balance" -> st.red_balance # 0 \/ st.green_balance # 0 \/ st.blue_balance # 0
      [] OTHER -> st[stage] # 100

\* the stages the call has run on top of those the input had been through
StagesRun == SubSeq(result[1].ops, Len(args.image.ops) + 1, Len(result[1].ops))
StageNames == [i \in 1..Len(StagesRun) |-> StagesRun[i][1]]
NonNeutralHere(stage) == NonNeutral(stage, args.state)

\* the stages run are the non-neutral ones in the order brightness,
\* contrast, saturation, sharpness, temperature, RGB balance, on top of the
\* stages the input image had been through
RunsNonNeutralStagesInOrder ==
    /\ StageNames = SelectSeq(StageOrder, NonNeutralHere)
    /\ SubSeq(result[1].ops, 1, Len(args.image.ops)) = args.image.ops

\* C39 as stated: the non-neutral stages run in the fixed order, and with
\* the default state the result equals the input
C39_StagesInOrderResultEqualsInput ==
    args.fn = "apply_adjustments" /\ result # None =>
        /\ RunsNonNeutralStagesInOrder
        /\ args.state = DefaultState => result[1] = args.image

\* C39 amended: the non-neutral stages run in the fixed order on the input
\* converted to RGB, and with the default state no stage runs and the result
\* equals the input converted to RGB, which is the input when it is RGB
C39_StagesInOrderOnRgb ==
    args.fn = "apply_adjustments" /\ result # None =>
        /\ RunsNonNeutralStagesInOrder
        /\ result[1].mode = "RGB"
        /\ [result[1] EXCEPT !.ops = args.image.ops] = convert(args.image, "RGB")
        /\ args.state = DefaultState =>
              /\ StagesRun = <<>>
              /\ result[1] = convert(args.image, "RGB")
              /\ args.image.mode = "RGB" => result[1] = args.image

\* every stage has run on an image with an alpha channel
C39_Witness ==
    /\ args.fn = "apply_adjustments"
    /\ result # None
    /\ args.image.mode = "RGBA"
    /\ Len(StagesRun) = Len(StageOrder)

(***************************************************************************)
(* Claims about resizing to the size the image has                         *)
(***************************************************************************)
\* resize_with_quality has returned an image
Resized == args.fn = "resize_with_quality" /\ result # None /\ ~result[1].raised

\* the steps the call has applied to the image it was given
StepsApplied ==
    SubSeq(result[1].ret[1].made_by, Len(args.image.made_by) + 1,
           Len(result[1].ret[1].made_by))

\* the size asked for is the size of the source
SameSize ==
    /\ result[1].ret[1].width = args.image.width
    /\ result[1].ret[1].height = args.image.height

\* C40: when the target size equals the source size resize_with_quality
\* applies neither the resample nor the unsharp mask and returns a copy
\* equal to the source; when it differs it applies the resample and then
\* the unsharp mask
C40_SameSizeIsPlainCopy ==
    Resized =>
        /\ SameSize => StepsApplied = <<"copy">>
        /\ ~SameSize => StepsApplied = <<"resize", "UnsharpMask">>

\* the part of C40 for a target size that differs from the source size
C40_ResampleThenSharpen == Resized /\ ~SameSize => StepsApplied = <<"resize", "UnsharpMask">>

(***************************************************************************)
(* Claims about the auto-balance mode of the window                        *)
(***************************************************************************)
\* the handlers that reset the window's image state or load an image: a
\* file drop, reset to original, and the deletion of the open image
ImageLoadedOrReset == {"handle_file_drop", "reset_to_original", "delete_selected_images"}

CropFailed == args.fn = "apply_crop" /\ result # None /\ result[1].error # None

\* C14: when applying a crop fails (nothing loaded, no selection, no ratio
\* selected, or compute_crop_box / perform_crop raising), the session's base
\* image, the controller's adjustment state, the stored crop geometry and the
\* history store (current, undo stack, redo stack) are as they were before
C14_FailedCropIsNoOp ==
    CropFailed =>
        /\ session.base_image = args.pre.session.base_image
        /\ state = args.pre.adjustment_controller.state
        /\ window.crop_geometry = args.pre.flags.crop_geometry
        /\ current = args.pre.image_store.current
        /\ undo_stack = args.pre.image_store.undo_stack
        /\ redo_stack = args.pre.image_store.redo_stack

\* a crop that failed in compute_crop_box, on a window with an adjusted
\* image, a stored crop geometry and a history of more than one entry
C14_Witness ==
    /\ CropFailed
    /\ result[1].error = Some("CropServiceError")
    /\ state # DefaultState
    /\ window.crop_geometry # None
    /\ undo_stack # <<>>


(***************************************************************************)
(* Claims about the ratio selection                                        *)
(***************************************************************************)
\* the ratio-button handler has just run on the button that was active
Deactivated ==
    /\ args'.fn = "ratio_button_clicked"
    /\ window.active_ratio_button = Some(args'.label)

\* the file-load handler has just run and got as far as loading
Loaded == args'.fn = "handle_file_drop" /\ args'.loaded

\* C36: the session's ratio is set only by a ratio-button activation and is
\* cleared by deactivation and by loading; after every path through the
\* ratio-button handler and the file-load handler the session holds a ratio
\* exactly when a ratio button is active; at deactivation and at load the
\* overlay selection and the stored crop geometry are discarded
C36_RatioIffButtonActive ==
    [][/\ session'.ratio # session.ratio /\ session'.ratio # RatioSelection =>
            args'.fn = "ratio_button_clicked" /\ ~Deactivated
       /\ Deactivated \/ Loaded =>
            /\ session'.ratio = RatioSelection
            /\ window'.selection = None
            /\ window'.crop_geometry = None
       /\ args'.fn \in {"ratio_button_clicked", "handle_file_drop"} =>
            (session'.ratio # RatioSelection <=> window'.active_ratio_button # None)]_vars

\* the parts of C36 other than the equivalence
C36_SetAndClearedByHandlers ==
    [][/\ session'.ratio # session.ratio /\ session'.ratio # RatioSelection =>
            args'.fn = "ratio_button_clicked" /\ ~Deactivated
       /\ Deactivated \/ Loaded =>
            /\ session'.ratio = RatioSelection
            /\ window'.selection = None
            /\ window'.crop_geometry = None]_vars

(***************************************************************************)
(* Claims about opening a file                                             *)
(***************************************************************************)
\* the file-load handler has just run and decoding the file failed
DecodeFailed == Loaded /\ session'.original_image = None

\* C37: opening a file is all-or-nothing: when decoding the chosen file
\* fails, the image loaded before (original and base), its adjustment state,
\* its ratio selection and its undo/redo history are as before the attempt
C37_FailedOpenIsNoOp ==
    [][DecodeFailed =>
          /\ session'.original_image = session.original_image
          /\ session'.base_image = session.base_image
          /\ session'.ratio = session.ratio
          /\ state' = state
          /\ original' = original
          /\ current' = current
          /\ undo_stack' = undo_stack
          /\ redo_stack' = redo_stack]_vars

(***************************************************************************)
(* Claims about the base image                                             *)
(***************************************************************************)
\* apply_crop() has just run and replaced the base image
CropApplied == args'.fn = "apply_crop" /\ result'[1].error = None

\* the image is the original of the session, or a rectangle cut out of what
\* was displayed of it (a crop keeps the adjustments that were displayed)
OriginalOrOneCrop(image, s) ==
    /\ s.original_image # None
    /\ image.src = s.original_image[1].src
    /\ image = s.original_image[1] \/ image.crop # None

\* C35: the session's base image is always the original image or the result
\* of exactly one crop of it; a crop is never applied on top of an earlier crop
C35_BaseIsOriginalOrOneCrop ==
    [][/\ session'.base_image # None => OriginalOrOneCrop(session'.base_image[1], session')
       /\ CropApplied => canvas[1].crop = None]_vars

\* the part of C35 that holds: a crop made right after a ratio was chosen
\* cuts the original image
C35_CropAfterRatioCutsOriginal ==
    [][CropApplied /\ args.fn = "ratio_button_clicked" =>
          /\ canvas[1] = session.original_image[1]
          /\ OriginalOrOneCrop(session'.base_image[1], session')
          /\ session'.base_image[1].crop # None]_vars

(***************************************************************************)
(* Claims about the objects snapshots refer to                             *)
(***************************************************************************)
\* the content an object referred to has, if there is one
Content(h, ref) == IF ref = None THEN None ELSE Some(h.objects[ref[1]])

\* the snapshot with the content its payload's objects have now
Deref(h, snapshot) ==
    IF snapshot.payload = None THEN snapshot
    ELSE LET payload == snapshot.payload[1] IN
         [snapshot EXCEPT !.payload =
             Some([base_image |-> Content(h, payload.base_image),
                   adjustment_state |-> h.objects[payload.adjustment_state],
                   current_image |-> Some(h.objects[payload.current_image]),
                   metadata_text |-> payload.metadata_text,
                   crop_geometry |-> Content(h, payload.crop_geometry)])]

DerefAll(h, snapshots) == [i \in DOMAIN snapshots |-> Deref(h, snapshots[i])]

\* no object is referred to by two of the snapshots
Unshared(snapshots) ==
    \A i, j \in DOMAIN snapshots :
        i # j => SnapshotIds(snapshots[i]) \cap SnapshotIds(snapshots[j]) = {}

\* C34: snapshots are immutable once pushed: whatever controller mutation,
\* base-image replacement, crop, undo, redo or restore follows, the
\* adjustment vector, base image, rendered image, metadata text and crop
\* geometry of every snapshot held as current or on either stack are the
\* values it was pushed with (which is what the store of values holds),
\* because no object a snapshot refers to is referred to by the controller,
\* the session, the window, the canvas or another snapshot
C34_SnapshotsImmutable ==
    /\ DerefAll(heap, heap.image_store.current) = current
    /\ DerefAll(heap, heap.image_store.undo_stack) = undo_stack
    /\ DerefAll(heap, heap.image_store.redo_stack) = redo_stack
    /\ StoredIds(heap) \cap LiveIds(heap) = {}
    /\ Unshared(heap.image_store.current \o heap.image_store.undo_stack
                    \o heap.image_store.redo_stack)

\* a slider was moved after two commits: the controller's state object was
\* assigned to, its state differs from the adjustment vector of the current
\* snapshot, and the undo stack holds a snapshot with a payload as well
C34_Witness ==
    /\ args.fn = "on_factor_slider_change"
    /\ current # None
    /\ current[1].payload # None
    /\ state.brightness # current[1].payload[1].adjustment_state.brightness
    /\ undo_stack # <<>>
    /\ Last(undo_stack).payload # None

====
